---- MODULE Spec2Model ----
(***************************************************************************)
(* Model of the resilient request-dispatch layer of ai-suite:              *)
(*   - fetchWithRetry and parseRateLimitHeaders of the backend server      *)
(*     (src/unnamed/part_001, lines 484-567);                              *)
(*   - the SSE stream parsers of the frontend (src/frontend/src/lib/api.ts) *)
(*     and of the SDK providers (src/src/providers/openrouter.ts,          *)
(*     src/unnamed/part_004);                                              *)
(*   - the chat, failover, routing and models handlers of the server       *)
(*     (src/unnamed/part_001, lines 613-981);                              *)
(*   - the SDK client AIClient (src/unnamed/part_005) and BaseProvider;    *)
(*   - the chat page with sessions (src/unnamed/part_002).                 *)
(*                                                                         *)
(* Delays are kept in microseconds, so that 5000 * 1.5^4 = 25312.5 ms is   *)
(* an integer. Texts are sequences of one-character strings.               *)
(***************************************************************************)
EXTENDS Integers, Sequences, FiniteSets, TLC

VARIABLES
    provider,    \* fetchWithRetry's `provider` argument
    pc,          \* "fetch": a request is in flight; "sleep": inside sleep(delay);
                 \* "done": fetchWithRetry returned; "threw": it rejected
    attempt,     \* fetchWithRetry's `attempt` argument of the current frame
    requests,    \* number of fetch() calls issued by this logical call
    response,    \* the `response` of the current frame (NoResponse until it arrives)
    returned,    \* the value the logical call resolved with (NoResponse before)
    delay,       \* the `delay` of the current frame, in microseconds (0 until computed)
    log,         \* history: [status, body] of every response received, in order
    rateLimits,  \* the module-level Map `rateLimits`
    parser,      \* which stream parser runs
    input,       \* bytes of the response body not yet delivered by reader.read()
    buffer,      \* the parser's `buffer`
    yielded,     \* increments yielded so far, in order
    spc,         \* "open": the response has arrived; "read": in the while loop;
                 \* "end": generator finished; "threw": it threw
    payload,     \* the whole SSE payload of this stream (history)
    reader,      \* the body's reader: "none" before getReader(), "locked" while
                 \* held on an open stream, "closed" once the stream has reported
                 \* done or failed, "released" after releaseLock()
    hasBody,     \* whether the response has a body (`response.body` is not null)
    thrown,      \* the error a generator threw ("none" if it did not)
    streaming,   \* the chat handler's `isStreaming`
    hpc,         \* the chat handler: "respond" when fetchWithRetry has returned,
                 \* "relay" while the Readable pipes, "replied" when it is done
    reply,       \* what the handler has sent to its client
    pushed,      \* the bytes the relay has pushed downstream, in order
    client,      \* "connected" or "gone": the handler's client connection
    modelClass,  \* the failover handler's `modelClass`
    env,         \* the names of the environment variables that are set
    idx,         \* position of the failover loop in the chain (0 before it starts)
    fpc,         \* the failover handler: "lookup", "entry" (top of the loop body),
                 \* "dispatch" (inside fetchWithRetry), "finished", "crashed"
    dispatched,  \* history: the entries handed to fetchWithRetry, with outcome
    contacted,   \* history: the providers an HTTP request was issued to
    result,      \* what the failover handler has answered
    request,     \* the HTTP request the server handles: method, path, and the
                 \* `model` of its body (its text where the text is rewritten;
                 \* <<>> or <<m>> where it is only passed on)
    served,      \* the route handler that took the request ("none" before)
    rpc,         \* the request: "idle", "arrived", "routed", "answered",
                 \* "upstream" (the handler went on to call the provider)
    answer,      \* what that handler has answered
    landed,      \* history: [provider, rate] of every response a call of
                 \* fetchWithRetry received, in the order they arrived
    calls,       \* the frames of the concurrent logical calls of fetchWithRetry
    modelCache,  \* the module-level Map `modelCache`
    now,         \* Date.now(), in milliseconds since the first models request
    gets,        \* the GET /api/:provider/models requests, in order of arrival:
                 \* what each found, whether it is still fetching, its reply
    fetched,     \* history: the model lists stored in the cache, in order
    processEnv,  \* the process.env AIClient.fromEnv() read (<<>> if it was not called)
    config,      \* the AIClientConfig handed to `new AIClient(config)`
    sdk,         \* "none": no AIClient was constructed; "constructed"; "threw":
                 \* the constructor threw 'API key is required'
    providers,   \* AIClient's Map `providers`, its entries in insertion order
    call,        \* the last call made on the AIClient: the method, the provider it
                 \* names, where it stands, the HTTP requests it issued, its outcome
    messages,    \* the chat UI's `messages` state
    isLoading,   \* the chat UI's `isLoading` state
    abortControllerRef, \* abortControllerRef.current: 0 for null, or the number
                 \* of the handleSubmit invocation that created the controller
    submits,     \* the invocations of handleSubmit, in order: the closure of
                 \* each (newMessages, assistantMessage, currentSessionId), its
                 \* controller's `aborted`, and where its for-await loop stands
    chatHistory, \* the chat UI's `chatHistory` state, newest session first
    currentSessionId \* the chat UI's `currentSessionId` state (0 for null)

retryVars  == <<provider, pc, attempt, requests, response, returned, delay, log, rateLimits>>
streamVars == <<parser, input, buffer, yielded, spc, payload, reader, hasBody, thrown>>
handlerVars == <<streaming, hpc, reply, pushed, client>>
failVars   == <<modelClass, env, idx, fpc, dispatched, contacted, result>>
routeVars  == <<request, served, rpc, answer>>
rateVars   == <<landed, calls>>
cacheVars  == <<modelCache, now, gets, fetched>>
sdkVars    == <<processEnv, config, sdk, providers, call>>
uiVars     == <<messages, isLoading, abortControllerRef, submits, chatHistory, currentSessionId>>
extraVars  == <<routeVars, rateVars, cacheVars, sdkVars, uiVars>>
vars       == <<provider, pc, attempt, requests, response, returned, delay, log, rateLimits,
                parser, input, buffer, yielded, spc, payload, reader, hasBody, thrown,
                streaming, hpc, reply, pushed, client,
                modelClass, env, idx, fpc, dispatched, contacted, result,
                request, served, rpc, answer, landed, calls,
                modelCache, now, gets, fetched,
                processEnv, config, sdk, providers, call,
                messages, isLoading, abortControllerRef, submits, chatHistory, currentSessionId>>

----------------------------------------------------------------------------
(* Bounds of the model.                                                    *)

\* Largest Retry-After value (seconds) a response carries.
MaxRetryAfter == 1
\* Math.random() is drawn from { j / JitterDen : j \in 0 .. JitterDen - 1 }.
JitterDen == 2

----------------------------------------------------------------------------
(* Texts.                                                                  *)

Min(a, b) == IF a <= b THEN a ELSE b

\* String.prototype.includes: `sub` occurs in `s` as a contiguous substring.
Includes(s, sub) ==
    \E i \in 0 .. (Len(s) - Len(sub)) : SubSeq(s, i + 1, i + Len(sub)) = sub

StartsWith(s, pre) == Len(s) >= Len(pre) /\ SubSeq(s, 1, Len(pre)) = pre

\* String.prototype.toLowerCase on the letters the model uses.
Lower(c) ==
    CASE c = "A" -> "a" [] c = "B" -> "b" [] c = "C" -> "c" [] c = "D" -> "d"
      [] c = "E" -> "e" [] c = "I" -> "i" [] c = "L" -> "l" [] c = "M" -> "m"
      [] c = "N" -> "n" [] c = "O" -> "o" [] c = "R" -> "r" [] c = "S" -> "s"
      [] c = "T" -> "t" [] c = "Y" -> "y" [] OTHER -> c

ToLower(s) == [i \in 1 .. Len(s) |-> Lower(s[i])]

TxtCold          == <<"C", "o", "l", "d">>
TxtNotReady      == <<"N", "o", "t", " ", "R", "e", "a", "d", "y">>
TxtModelIsCold   == <<"M", "o", "d", "e", "l", " ", "i", "s", " ", "C", "o", "l", "d">>
TxtModelIsColdLc == <<"m", "o", "d", "e", "l", " ", "i", "s", " ", "c", "o", "l", "d">>
TxtModelIsColdUc == <<"M", "O", "D", "E", "L", " ", "I", "S", " ", "C", "O", "L", "D">>
TxtModelNotReady == <<"M", "o", "d", "e", "l", " ", "N", "o", "t", " ", "R", "e", "a", "d", "y">>
TxtModelNotReadyLc == <<"m", "o", "d", "e", "l", " ", "n", "o", "t", " ", "r", "e", "a", "d", "y">>
TxtBadRequest    == <<"B", "a", "d", " ", "r", "e", "q", "u", "e", "s", "t">>

----------------------------------------------------------------------------
(* Providers and responses.                                                *)

\* Keys of PROVIDERS.
Providers == {"openrouter", "huggingface", "featherless", "venice", "together"}

\* features.coldStarts of each entry of PROVIDERS.
coldStarts(p) == p \in {"huggingface", "featherless"}

\* A response body. shape "text": not JSON, `text` is the raw body;
\* "null": the JSON value null; "object": a JSON object without a message
\* field; "number": a JSON object whose message is a number; "string": a
\* JSON object whose message is the string `text`.
Body(shape, text) == [shape |-> shape, text |-> text]

BodyOk          == Body("object", <<>>)
BodyCold        == Body("string", TxtModelIsCold)
BodyColdLc      == Body("string", TxtModelIsColdLc)
BodyColdUc      == Body("string", TxtModelIsColdUc)
BodyNotReady    == Body("string", TxtModelNotReady)
BodyNotReadyLc  == Body("string", TxtModelNotReadyLc)
BodyBadRequest  == Body("string", TxtBadRequest)
BodyPlainCold   == Body("text", TxtModelIsCold)
BodyNull        == Body("null", <<>>)
BodyNumber      == Body("number", <<>>)

\* A header is <<>> when absent and <<n>> when present with the decimal value n.
Absent == <<>>
NoRateHeaders == [limit |-> Absent, remaining |-> Absent, reset |-> Absent]

NoResponse == [status |-> 0, body |-> BodyOk, retryAfter |-> Absent,
               rate |-> NoRateHeaders, bodyUsed |-> FALSE]

Resp(status, body, retryAfter, rate) ==
    [status |-> status, body |-> body, retryAfter |-> retryAfter,
     rate |-> rate, bodyUsed |-> FALSE]

RetryAfterValues == {Absent} \cup {<<n>> : n \in 0 .. MaxRetryAfter}

\* The bodies the model lets a response of each status carry.
BodiesOf(status) ==
    CASE status = 200 -> {BodyOk}
      [] status = 400 -> {BodyCold, BodyColdLc, BodyColdUc, BodyNotReady, BodyNotReadyLc,
                          BodyBadRequest, BodyPlainCold, BodyNull, BodyNumber, BodyOk}
      [] status = 502 -> {BodyCold, BodyBadRequest}
      [] OTHER        -> {BodyBadRequest}

Statuses == {200, 400, 401, 402, 403, 429, 500, 502, 503, 504}

\* The Retry-After headers the model lets a response of each status carry.
RetryAfterOf(status) ==
    IF status \in {429, 500, 502, 503, 504} THEN RetryAfterValues ELSE {Absent}

\* The responses a provider may send to one request of the logical call.
ResponsesWith(rates) ==
    UNION { { Resp(s, b, ra, rate) : b \in BodiesOf(s), ra \in RetryAfterOf(s), rate \in rates }
            : s \in Statuses }

Responses == ResponsesWith({NoRateHeaders})

----------------------------------------------------------------------------
(* Rate-limit tracking (part_001, lines 484-498).                          *)

\* rateLimits.get(p) of a provider without a snapshot.
Unknown == [known |-> FALSE, limit |-> 0, remaining |-> 0,
            reset |-> [base |-> "epoch", ms |-> 0]]

parseEitherHeader(map, headers, p) ==
    IF headers.limit # Absent \/ headers.remaining # Absent
    THEN [map EXCEPT ![p] =
            [known |-> TRUE,
             limit |-> IF headers.limit # Absent THEN headers.limit[1] ELSE 0,
             remaining |-> IF headers.remaining # Absent THEN headers.remaining[1] ELSE 0,
             reset |-> IF headers.reset # Absent
                       THEN [base |-> "epoch", ms |-> headers.reset[1] * 1000]
                       ELSE [base |-> "now", ms |-> 60000]]]
    ELSE map

parseFieldByField(map, headers, p) ==
    IF headers.limit # Absent /\ headers.remaining # Absent
    THEN [map EXCEPT ![p] =
            [known |-> TRUE,
             limit |-> headers.limit[1],
             remaining |-> IF map[p].known THEN map[p].remaining ELSE headers.remaining[1],
             reset |-> IF headers.reset # Absent
                       THEN [base |-> "epoch", ms |-> headers.reset[1] * 1000]
                       ELSE [base |-> "now", ms |-> 60000]]]
    ELSE map

\* parseRateLimitHeaders(headers, provider): the new value of the map.
\* reset is `parseInt(reset) * 1000`, or Date.now() + 60000 without the header.
parseRateLimitHeaders(map, headers, p) ==
    IF headers.limit # Absent /\ headers.remaining # Absent
    THEN [map EXCEPT ![p] =
            [known |-> TRUE,
             limit |-> headers.limit[1],
             remaining |-> headers.remaining[1],
             reset |-> IF headers.reset # Absent
                       THEN [base |-> "epoch", ms |-> headers.reset[1] * 1000]
                       ELSE [base |-> "now", ms |-> 60000]]]
    ELSE map

----------------------------------------------------------------------------
(* fetchWithRetry (part_001, lines 509-567).                               *)

RETRY_STATUS_CODES == {429, 500, 502, 503, 504}
MAX_RETRIES == 3

Ms(n) == n * 1000   \* milliseconds in microseconds

\* x * Math.pow(1.5, a), exact while 2^a divides x.
RECURSIVE TimesPow15(_, _)
TimesPow15(x, a) == IF a = 0 THEN x ELSE TimesPow15((3 * x) \div 2, a - 1)

RECURSIVE Pow2(_)
Pow2(a) == IF a = 0 THEN 1 ELSE 2 * Pow2(a - 1)

\* Line 531: cloned.json() throws on a body that is not JSON.
JsonThrows(body) == body.shape = "text"

\* Line 532: error.message?.includes(...) throws a TypeError when the parsed
\* value is null (property access) or message is a number (no includes).
IncludesThrows(body) == body.shape \in {"null", "number"}

ColdMessageAnyCase(body) ==
    /\ body.shape = "string"
    /\ (Includes(ToLower(body.text), ToLower(TxtCold))
        \/ Includes(ToLower(body.text), ToLower(TxtNotReady)))

\* Line 532: the message names a cold start. An object without message gives
\* undefined, which is falsy.
ColdMessage(body) ==
    /\ body.shape = "string"
    /\ (Includes(body.text, TxtCold) \/ Includes(body.text, TxtNotReady))

ColdCheckNoCatch(body) ==
    IF JsonThrows(body) \/ IncludesThrows(body) THEN "raised"
    ELSE IF ColdMessage(body) THEN "cold" ELSE "notcold"

\* Lines 530-542: the try block around the check; an exception thrown in it is
\* caught by the empty catch. "raised" would be an exception leaving the block.
ColdCheck(body) ==
    IF JsonThrows(body) \/ IncludesThrows(body) THEN "caught"
    ELSE IF ColdMessage(body) THEN "cold" ELSE "notcold"

ReadOriginal(r) == [r EXCEPT !.bodyUsed = TRUE]

\* Lines 529-531: the body is read from response.clone(); the original response
\* keeps its body unread.
ReadForCheck(r) == r

ColdRetryOffByOne(a) == a <= 5

\* Line 533: attempt < 5.
ColdCanRetry(a) == a < 5

ColdDelayDoubling(a) == Min(Ms(30000), Ms(5000) * Pow2(a))

\* Line 534: Math.min(30000, 5000 * Math.pow(1.5, attempt)).
ColdDelay(a) == Min(Ms(30000), TimesPow15(Ms(5000), a))

CanRetryOffByOne(a) == a <= MAX_RETRIES

\* Lines 547 and 555: attempt < MAX_RETRIES.
CanRetry(a) == a < MAX_RETRIES

HfDelayLinear(a) == Ms(5000) * (a + 1)

\* Line 548: 5000 * Math.pow(2, attempt).
HfDelay(a) == Ms(5000) * Pow2(a)

\* Line 559: Math.min(1000 * Math.pow(2, attempt) * (0.5 + Math.random()), 30000)
\* with Math.random() = j / JitterDen.
Backoff(a, j) == Min((Ms(1000) * Pow2(a) * (JitterDen + 2 * j)) \div (2 * JitterDen), Ms(30000))

GenericDelayIgnoringHeader(retryAfter, a, j) == Backoff(a, j)

\* Lines 556-559: a Retry-After header (a non-empty string is truthy, "0"
\* included) gives parseInt(retryAfter) * 1000.
GenericDelay(retryAfter, a, j) ==
    IF retryAfter # Absent THEN Ms(retryAfter[1] * 1000) ELSE Backoff(a, j)

RetryableWith401(status) == status \in RETRY_STATUS_CODES \cup {401}

\* Line 555: RETRY_STATUS_CODES.includes(response.status).
Retryable(status) == status \in RETRY_STATUS_CODES

ReceiveOkOnly(r) ==
    /\ pc = "fetch"
    /\ response' = r
    /\ log' = Append(log, [status |-> r.status, body |-> r.body])
    /\ rateLimits' = IF r.status \in 200 .. 299
                     THEN [rateLimits EXCEPT ![provider] =
                             IF r.rate.limit # Absent /\ r.rate.remaining # Absent
                             THEN [known |-> TRUE, limit |-> r.rate.limit[1],
                                   remaining |-> r.rate.remaining[1],
                                   reset |-> IF r.rate.reset # Absent
                                             THEN [base |-> "epoch", ms |-> r.rate.reset[1] * 1000]
                                             ELSE [base |-> "now", ms |-> 60000]]
                             ELSE rateLimits[provider]]
                     ELSE rateLimits
    /\ UNCHANGED <<provider, attempt, requests>>

\* Lines 522-525, common to every branch: the response arrives, the rate-limit
\* headers are recorded.
Receive(r) ==
    /\ pc = "fetch"
    /\ response' = r
    /\ log' = Append(log, [status |-> r.status, body |-> r.body])
    /\ rateLimits' = parseRateLimitHeaders(rateLimits, r.rate, provider)
    /\ UNCHANGED <<provider, attempt, requests>>

Sleep(d) ==
    /\ pc' = "sleep"
    /\ delay' = d
    /\ UNCHANGED returned

Return(r) ==
    /\ pc' = "done"
    /\ returned' = r
    /\ UNCHANGED delay

\* Lines 528-538: a featherless 400 whose message names a cold start, with
\* attempts left: sleep, then retry.
ColdRetry(r) ==
    /\ Receive(r)
    /\ provider = "featherless" /\ r.status = 400
    /\ ColdCheck(r.body) = "cold"
    /\ ColdCanRetry(attempt)
    /\ Sleep(ColdDelay(attempt))

\* Lines 528-543: any other featherless 400 is returned as it came.
ColdReturn(r) ==
    /\ Receive(r)
    /\ provider = "featherless" /\ r.status = 400
    /\ ~(ColdCheck(r.body) = "cold" /\ ColdCanRetry(attempt))
    /\ IF ColdCheck(r.body) = "raised"
       THEN pc' = "threw" /\ UNCHANGED <<returned, delay>>
       ELSE Return(ReadForCheck(r))

\* Lines 547-552: a huggingface 502 with attempts left.
HuggingFaceRetry(r) ==
    /\ Receive(r)
    /\ ~(provider = "featherless" /\ r.status = 400)
    /\ provider = "huggingface" /\ r.status = 502 /\ CanRetry(attempt)
    /\ Sleep(HfDelay(attempt))

\* Lines 555-564: the standard retry.
GenericRetry(r) ==
    /\ Receive(r)
    /\ ~(provider = "featherless" /\ r.status = 400)
    /\ ~(provider = "huggingface" /\ r.status = 502 /\ CanRetry(attempt))
    /\ Retryable(r.status) /\ CanRetry(attempt)
    /\ \E j \in 0 .. JitterDen - 1 : Sleep(GenericDelay(r.retryAfter, attempt, j))

\* Line 566.
FinalReturn(r) ==
    /\ Receive(r)
    /\ ~(provider = "featherless" /\ r.status = 400)
    /\ ~(provider = "huggingface" /\ r.status = 502 /\ CanRetry(attempt))
    /\ ~(Retryable(r.status) /\ CanRetry(attempt))
    /\ Return(r)

WakeSameAttempt ==
    /\ pc = "sleep"
    /\ pc' = "fetch"
    /\ attempt' = attempt
    /\ requests' = requests + 1
    /\ response' = NoResponse
    /\ delay' = 0
    /\ UNCHANGED <<provider, returned, log, rateLimits>>

WakeTwice ==
    /\ pc = "sleep"
    /\ pc' = "fetch"
    /\ attempt' = attempt + 1
    /\ requests' = requests + 2
    /\ response' = NoResponse
    /\ delay' = 0
    /\ UNCHANGED <<provider, returned, log, rateLimits>>

\* Lines 536-537, 550-551, 562-563: sleep(delay) resolves and the recursive
\* call (a new frame, with its own response and delay) issues the next request.
Wake ==
    /\ pc = "sleep"
    /\ pc' = "fetch"
    /\ attempt' = attempt + 1
    /\ requests' = requests + 1
    /\ response' = NoResponse
    /\ delay' = 0
    /\ UNCHANGED <<provider, returned, log, rateLimits>>

StreamIdle ==
    /\ parser = "none" /\ input = <<>> /\ buffer = <<>> /\ yielded = <<>>
    /\ spc = "end" /\ payload = <<>>
    /\ reader = "none" /\ hasBody = FALSE /\ thrown = "none"

NoReply == [status |-> 0, kind |-> "none", error |-> "none", hint |-> "none"]

HandlerIdle ==
    /\ streaming = FALSE /\ hpc = "idle" /\ reply = NoReply
    /\ pushed = <<>> /\ client = "connected"

NoResult == [status |-> 0, error |-> "none", provider |-> "none", model |-> "none"]

FailoverIdle ==
    /\ modelClass = "none" /\ env = {} /\ idx = 0 /\ fpc = "idle"
    /\ dispatched = <<>> /\ contacted = {} /\ result = NoResult

NoRequest == [method |-> "none", path |-> <<>>, model |-> <<>>]

NoAnswer == [status |-> 0, error |-> "none", model |-> <<>>]

RouteIdle ==
    /\ request = NoRequest /\ served = "none" /\ rpc = "idle" /\ answer = NoAnswer

\* No response has arrived, no concurrent call runs.
RateIdle == landed = <<>> /\ calls = <<>>

\* modelCache.get(p) of a provider without an entry.
NoEntry == [present |-> FALSE, data |-> "none", fetchedAt |-> 0]

\* Line 503: the cache starts empty; no models request has arrived.
CacheIdle ==
    /\ modelCache = [p \in Providers |-> NoEntry]
    /\ now = 0 /\ gets = <<>> /\ fetched = <<>>

\* No AIClient has been constructed and no call was made on one.
NoError == [name |-> "none", message |-> <<>>, provider |-> "none",
            statusCode |-> <<>>, response |-> <<>>]

NoCall == [op |-> "none", provider |-> "none", pc |-> "idle", requests |-> 0,
           outcome |-> "none", value |-> <<>>, error |-> NoError, response |-> <<>>]

SdkProviders == <<"openrouter", "huggingface", "featherless", "venice">>

SdkIdle ==
    /\ processEnv = <<>>
    /\ config = [p \in {SdkProviders[i] : i \in 1 .. 4} |-> <<>>]
    /\ sdk = "none" /\ providers = <<>> /\ call = NoCall

\* The chat page after mounting: no message, nothing loading, no controller.
UiIdle ==
    /\ messages = <<>> /\ isLoading = FALSE
    /\ abortControllerRef = 0 /\ submits = <<>>
    /\ chatHistory = <<>> /\ currentSessionId = 0

ExtraIdle == RouteIdle /\ RateIdle /\ CacheIdle /\ SdkIdle /\ UiIdle

\* A handler calls fetchWithRetry(url, options, provider): attempt = 0 and the
\* first request is issued.
RetryInit ==
    /\ provider \in Providers
    /\ pc = "fetch"
    /\ attempt = 0
    /\ requests = 1
    /\ response = NoResponse
    /\ returned = NoResponse
    /\ delay = 0
    /\ log = <<>>
    /\ rateLimits = [p \in Providers |-> Unknown]

Init == RetryInit /\ StreamIdle /\ HandlerIdle /\ FailoverIdle /\ ExtraIdle

Next ==
    \/ \E r \in Responses : ColdRetry(r) /\ UNCHANGED <<streamVars, handlerVars, failVars, extraVars>>
    \/ \E r \in Responses : ColdReturn(r) /\ UNCHANGED <<streamVars, handlerVars, failVars, extraVars>>
    \/ \E r \in Responses : HuggingFaceRetry(r) /\ UNCHANGED <<streamVars, handlerVars, failVars, extraVars>>
    \/ \E r \in Responses : GenericRetry(r) /\ UNCHANGED <<streamVars, handlerVars, failVars, extraVars>>
    \/ \E r \in Responses : FinalReturn(r) /\ UNCHANGED <<streamVars, handlerVars, failVars, extraVars>>
    \/ Wake /\ UNCHANGED <<streamVars, handlerVars, failVars, extraVars>>

Spec == Init /\ [][Next]_vars

----------------------------------------------------------------------------
(* Properties of fetchWithRetry.                                           *)

Last(seq) == seq[Len(seq)]

\* Every response received so far has status s.
AllStatus(s) == Len(log) > 0 /\ \A i \in 1 .. Len(log) : log[i].status = s

\* The first n responses are `status` responses whose body is one of `bodies`.
PrefixOf(n, status, bodies) ==
    /\ n >= 1 /\ n <= Len(log)
    /\ \A i \in 1 .. n : log[i].status = status /\ log[i].body \in bodies

\* 5000 * 1.5^a ms for a = 0 .. 4, in microseconds.
ColdDelayTable == <<5000000, 7500000, 11250000, 16875000, 25312500>>

\* 5 s, 10 s and 20 s, in microseconds.
HfDelayTable == <<5000000, 10000000, 20000000>>

\* The provider's designated "not ready" status.
Designated(p) == IF p = "featherless" THEN 400 ELSE 502

\* C1: for every provider and every status of {429, 500, 502, 503, 504}, a
\* logical call whose responses all carry that status issues 4 requests
\* (3 retries), never more, and then returns the last response unchanged.
C1_GenericRetriedThreeTimes ==
    \A s \in {429, 500, 502, 503, 504} :
        AllStatus(s) =>
            /\ requests <= 4
            /\ pc # "threw"
            /\ pc = "done" =>
                  /\ requests = 4 /\ Len(log) = 4
                  /\ returned = response
                  /\ returned.status = s

C1_Witness ==
    /\ pc = "done" /\ provider = "venice"
    /\ AllStatus(503) /\ requests = 4 /\ returned.status = 503

\* C2 as stated: for both cold-start-prone providers, designated status plus
\* marker on every response gives 5 retries with delays min(30000, 5000 * 1.5^a).
C2_Original ==
    (/\ coldStarts(provider)
     /\ PrefixOf(Len(log), Designated(provider), {BodyCold, BodyNotReady}))
    =>
        /\ pc = "done" => requests = 6
        /\ pc = "sleep" => attempt < 5 /\ delay = Min(30000000, ColdDelayTable[attempt + 1])

\* C2, amended: the 5 retries with delays min(30000, 5000 * 1.5^a) ms, never
\* decreasing, are featherless's (status 400 with a 'Cold' / 'Not Ready'
\* message); a huggingface 502 with the same body is retried 3 times only,
\* with delays 5000 * 2^a ms.
C2_ColdStartSchedule ==
    /\ (provider = "featherless" /\ PrefixOf(Len(log), 400, {BodyCold, BodyNotReady}))
       =>
         /\ requests <= 6
         /\ pc = "done" => requests = 6 /\ returned = response /\ returned.status = 400
         /\ pc = "sleep" =>
               /\ attempt < 5
               /\ delay = Min(30000000, ColdDelayTable[attempt + 1])
               /\ attempt > 0 => delay >= ColdDelayTable[attempt]
    /\ (provider = "huggingface" /\ PrefixOf(Len(log), 502, {BodyCold, BodyNotReady}))
       =>
         /\ requests <= 4
         /\ pc = "done" => requests = 4 /\ returned = response /\ returned.status = 502
         /\ pc = "sleep" => attempt < 3 /\ delay = HfDelayTable[attempt + 1]

C2_Witness ==
    /\ pc = "done" /\ provider = "featherless"
    /\ PrefixOf(Len(log), 400, {BodyCold, BodyNotReady})
    /\ requests = 6

\* C3: for featherless, when the first k responses (1 <= k <= 5) are 400 with a
\* message containing 'Cold' and response k+1 is 200, the call returns that 200
\* after k+1 requests, and the wait before retry i+1 was 5000 * 1.5^i ms exactly.
C3_ColdThenOk ==
    provider = "featherless" =>
        /\ (pc = "sleep" /\ PrefixOf(Len(log), 400, {BodyCold})) =>
              /\ attempt = Len(log) - 1
              /\ attempt < 5
              /\ delay = ColdDelayTable[attempt + 1]
        /\ (pc = "done" /\ PrefixOf(Len(log), 400, {BodyCold})) => Len(log) = 6
        /\ (pc # "fetch" /\ PrefixOf(Len(log) - 1, 400, {BodyCold}) /\ Last(log).status = 200) =>
              /\ pc = "done"
              /\ Len(log) <= 6
              /\ requests = Len(log)
              /\ returned = response
              /\ returned.status = 200

C3_Witness ==
    /\ pc = "done" /\ provider = "featherless"
    /\ Len(log) = 4 /\ PrefixOf(3, 400, {BodyCold})
    /\ returned.status = 200 /\ requests = 4

\* C4: a huggingface 502 is retried while fewer than 3 retries were made, after
\* 5 s, 10 s and 20 s for the first, second and third retry; when every
\* response is a 502 the fourth one is returned.
C4_HuggingFace502 ==
    provider = "huggingface" =>
        /\ (pc = "sleep" /\ response.status = 502) =>
              attempt < 3 /\ delay = HfDelayTable[attempt + 1]
        /\ (pc # "fetch" /\ response.status = 502 /\ attempt < 3) => pc = "sleep"
        /\ (pc = "done" /\ AllStatus(502)) =>
              requests = 4 /\ returned = response /\ returned.status = 502

C4_Witness ==
    /\ pc = "done" /\ provider = "huggingface"
    /\ AllStatus(502) /\ requests = 4 /\ returned.status = 502

\* C5 as stated: for every provider, a retried response of the generic set that
\* carries Retry-After: n is followed by a delay of n * 1000 ms.
C5_Original ==
    (/\ pc = "sleep"
     /\ response.status \in {429, 500, 502, 503, 504}
     /\ response.retryAfter # Absent)
    => delay = response.retryAfter[1] * 1000 * 1000

\* C5, amended: Retry-After: n sets the delay to n * 1000 ms on every retried
\* response of the generic set except a huggingface 502, whose delay is
\* 5000 * 2^attempt ms whatever the header says.
C5_RetryAfter ==
    (/\ pc = "sleep"
     /\ response.status \in {429, 500, 502, 503, 504}
     /\ response.retryAfter # Absent)
    => IF provider = "huggingface" /\ response.status = 502
       THEN attempt < 3 /\ delay = HfDelayTable[attempt + 1]
       ELSE delay = response.retryAfter[1] * 1000 * 1000

C5_Witness ==
    /\ pc = "sleep" /\ provider = "openrouter"
    /\ response.status = 429 /\ response.retryAfter = <<1>>
    /\ delay = 1000000

\* C6: the value fetchWithRetry returns is the response of the last request it
\* issued, unmodified (body unread); so it is a 2xx only if that last response
\* was, and after the budget is used up it is the last failing response.
C6_ReturnsLastResponse ==
    pc = "done" =>
        /\ returned = response
        /\ ~returned.bodyUsed
        /\ requests = Len(log)
        /\ Last(log) = [status |-> returned.status, body |-> returned.body]
        /\ returned.status \in 200 .. 299 => Last(log).status \in 200 .. 299

C6_Witness ==
    /\ pc = "done" /\ requests = 4
    /\ log[1].status = 429 /\ log[2].status = 500 /\ log[3].status = 504
    /\ returned.status = 503

\* A response that is neither of the generic retryable set nor a featherless
\* cold-start signal.
TerminalEntry(e) ==
    /\ e.status \notin {429, 500, 502, 503, 504}
    /\ ~(provider = "featherless" /\ e.status = 400 /\ e.body \in {BodyCold, BodyNotReady})

\* C7: a response with status 401, 403, 402, or any other status that is neither
\* retryable nor a cold-start signal, ends the call on whatever attempt it
\* arrives: no request follows it and it is the value returned.
C7_TerminalNotRetried ==
    /\ \A i \in 1 .. Len(log) - 1 : ~TerminalEntry(log[i])
    /\ (Len(log) > 0 /\ TerminalEntry(Last(log))) =>
          /\ pc = "done"
          /\ requests = Len(log)
          /\ returned = response
          /\ returned.status = Last(log).status

C7_Witness ==
    /\ pc = "done" /\ requests = 3 /\ returned.status = 403

\* The body text contains 'cold' or 'not ready' in any capitalisation.
MarkerAnyCase(body) ==
    \/ Includes(ToLower(body.text), ToLower(TxtCold))
    \/ Includes(ToLower(body.text), ToLower(TxtNotReady))

C9_NonJsonBody ==
    /\ provider = "featherless" => pc # "threw"
    /\ (/\ provider = "featherless"
        /\ pc # "fetch"
        /\ response.status = 400
        /\ response.body.shape \in {"text", "null", "object", "number"})
       => /\ pc = "done"
          /\ returned = response
          /\ ~returned.bodyUsed
          /\ requests = Len(log)

C9_Witness ==
    /\ provider = "featherless" /\ pc = "done"
    /\ returned.status = 400 /\ returned.body = BodyPlainCold

----------------------------------------------------------------------------
(* Stream parsers: chatStream of the frontend (api.ts, lines 164-208),     *)
(* chatStream of the SDK's OpenRouter provider (openrouter.ts, lines       *)
(* 176-217; featherless.ts has the same loop), parseSSEStream and          *)
(* parseTextGenStream of the HuggingFace provider (part_004, 390-494).     *)
(*                                                                         *)
(* A payload is a sequence of characters; the model's payloads are ASCII,  *)
(* on which TextDecoder.decode(value, {stream: true}) is the identity.     *)
(* JSON texts are written in short: {a} stands for                         *)
(* {"choices":[{"delta":{"content":"a"}}]}, {e} for a chunk whose delta    *)
(* has no content, {t} for {"token":{"text":"t","special":false}}, and {}  *)
(* is the empty object; any other text is not JSON.                        *)

\* Largest number of lines of a payload.
MaxLines == 2

NL == "\n"

Whitespace == {" ", "\n", "\r", "\t"}

Parsers == {"frontend", "openrouter", "parseSSEStream", "parseTextGenStream"}

RECURSIVE TrimStart(_)
TrimStart(s) == IF s # <<>> /\ Head(s) \in Whitespace THEN TrimStart(Tail(s)) ELSE s

RECURSIVE TrimEnd(_)
TrimEnd(s) ==
    IF s # <<>> /\ s[Len(s)] \in Whitespace THEN TrimEnd(SubSeq(s, 1, Len(s) - 1)) ELSE s

\* String.prototype.trim.
Trim(s) == TrimEnd(TrimStart(s))

\* s.slice(n).
Slice(s, n) == SubSeq(s, n + 1, Len(s))

\* s.split('\n'): the pieces between newlines, the last one possibly empty.
RECURSIVE Split(_)
Split(s) ==
    LET at == {i \in 1 .. Len(s) : s[i] = NL}
    IN  IF at = {} THEN <<s>>
        ELSE LET i == CHOOSE k \in at : \A m \in at : k <= m
             IN  <<SubSeq(s, 1, i - 1)>> \o Split(SubSeq(s, i + 1, Len(s)))

TxtDataSp   == <<"d", "a", "t", "a", ":", " ">>
TxtData     == <<"d", "a", "t", "a", ":">>
TxtDone     == <<"[", "D", "O", "N", "E", "]">>
TxtKeepPre  == <<":", " ", "O", "P", "E", "N", "R", "O", "U", "T", "E", "R">>
TxtKeep     == TxtKeepPre \o <<" ", "P", "R", "O", "C", "E", "S", "S", "I", "N", "G">>

NoContent == "undefined"

\* JSON.parse(text): ok is FALSE when it throws. Surrounding whitespace is
\* allowed by JSON.
JsonParse(text) ==
    LET t == Trim(text) IN
    CASE t = <<"{", "a", "}">> -> [ok |-> TRUE, kind |-> "chat", content |-> "a"]
      [] t = <<"{", "b", "}">> -> [ok |-> TRUE, kind |-> "chat", content |-> "b"]
      [] t = <<"{", "e", "}">> -> [ok |-> TRUE, kind |-> "chat", content |-> NoContent]
      [] t = <<"{", "t", "}">> -> [ok |-> TRUE, kind |-> "token", content |-> "t"]
      [] t = <<"{", "}">>      -> [ok |-> TRUE, kind |-> "empty", content |-> NoContent]
      [] OTHER                 -> [ok |-> FALSE, kind |-> "none", content |-> NoContent]

\* What one line does to the generator: `continue`, `return`, a `yield`, or an
\* exception that leaves the loop.
Skip == [stop |-> FALSE, out |-> <<>>, raised |-> FALSE]
Stop == [stop |-> TRUE, out |-> <<>>, raised |-> FALSE]
Yield(x) == [stop |-> FALSE, out |-> <<x>>, raised |-> FALSE]
Raise == [stop |-> TRUE, out |-> <<>>, raised |-> TRUE]

Uncaught == Raise

\* The empty catch block around JSON.parse and the mapping of the record
\* (api.ts 202-204, openrouter.ts 209-211, part_004 430-432 and 486-488): the
\* loop goes on with the next line.
Caught == Skip

\* api.ts, lines 192-206: the body of `for (const line of lines)`.
chatStreamLine(line) ==
    IF StartsWith(line, TxtKeepPre) THEN Skip
    ELSE IF StartsWith(line, TxtDataSp)
    THEN LET data == Slice(line, 6)
             parsed == JsonParse(data)
         IN  IF data = TxtDone THEN Stop
             ELSE IF ~parsed.ok THEN Caught
             ELSE IF parsed.kind = "chat" /\ parsed.content # NoContent
                  THEN Yield(parsed.content)
                  ELSE Skip
    ELSE Skip

\* openrouter.ts, lines 189-212: data.choices.map throws on a record without
\* choices, which the catch swallows.
OpenRouterLine(line) ==
    LET trimmed == Trim(line)
        parsed == JsonParse(Slice(trimmed, 6))
    IN  IF trimmed = <<>> \/ trimmed = TxtDataSp \o TxtDone THEN Skip
        ELSE IF ~StartsWith(trimmed, TxtDataSp) THEN Skip
        ELSE IF ~parsed.ok THEN Caught
        ELSE IF parsed.kind = "chat" THEN Yield(parsed.content)
        ELSE Caught

\* part_004, lines 408-433: `if (data.choices)` guards the yield.
parseSSEStreamLine(line) ==
    LET trimmed == Trim(line)
        parsed == JsonParse(Slice(trimmed, 6))
    IN  IF trimmed = <<>> \/ trimmed = TxtDataSp \o TxtDone THEN Skip
        ELSE IF ~StartsWith(trimmed, TxtDataSp) THEN Skip
        ELSE IF ~parsed.ok THEN Caught
        ELSE IF parsed.kind = "chat" THEN Yield(parsed.content)
        ELSE Skip

\* part_004, lines 458-489.
parseTextGenStreamLine(line) ==
    LET trimmed == Trim(line)
        jsonStr == Trim(Slice(trimmed, 5))
        parsed == JsonParse(jsonStr)
    IN  IF trimmed = <<>> THEN Skip
        ELSE IF StartsWith(trimmed, TxtData)
        THEN IF jsonStr = TxtDone THEN Skip
             ELSE IF ~parsed.ok THEN Caught
             ELSE IF parsed.kind = "token" THEN Yield(parsed.content)
             ELSE Skip
        ELSE Skip

ParseLine(p, line) ==
    CASE p = "frontend"           -> chatStreamLine(line)
      [] p = "openrouter"         -> OpenRouterLine(line)
      [] p = "parseSSEStream"     -> parseSSEStreamLine(line)
      [] p = "parseTextGenStream" -> parseTextGenStreamLine(line)

\* The for loop over the complete lines of one read: the increments yielded,
\* whether the generator returned inside the loop, and whether it threw.
RECURSIVE ForLines(_, _, _)
ForLines(p, lines, out) ==
    IF lines = <<>> THEN [yielded |-> out, ended |-> FALSE, raised |-> FALSE]
    ELSE LET r == ParseLine(p, Head(lines))
         IN  IF r.stop THEN [yielded |-> out, ended |-> TRUE, raised |-> r.raised]
             ELSE ForLines(p, Tail(lines), out \o r.out)

CarryNothing(lines) == <<>>

\* `buffer = lines.pop() || ''`: the text after the last newline is kept.
CarryOver(lines) == lines[Len(lines)]

\* `lines` after lines.pop().
CompleteLines(lines) == SubSeq(lines, 1, Len(lines) - 1)

\* Leaving the loop: the SDK parsers run `finally { reader.releaseLock() }`
\* (openrouter.ts 214-216, featherless.ts 214-216, part_004 435-437 and
\* 491-493); chatStream of the frontend has no such block and leaves the reader
\* as it is.
Finally(p, rd) ==
    IF p \in {"openrouter", "parseSSEStream", "parseTextGenStream"} THEN "released" ELSE rd

\* One iteration of `while (true)` with a read of n bytes: decode, append to the
\* buffer, split, keep the trailing partial line, parse the complete lines.
Read(n) ==
    /\ spc = "read"
    /\ n \in 1 .. Len(input)
    /\ LET lines == Split(buffer \o SubSeq(input, 1, n))
           r == ForLines(parser, CompleteLines(lines), yielded)
       IN  /\ buffer' = CarryOver(lines)
           /\ yielded' = r.yielded
           /\ spc' = IF r.raised THEN "threw" ELSE IF r.ended THEN "end" ELSE "read"
           /\ reader' = IF r.raised \/ r.ended THEN Finally(parser, reader) ELSE reader
           /\ thrown' = IF r.raised THEN "SyntaxError" ELSE thrown
    /\ input' = Slice(input, n)
    /\ UNCHANGED <<parser, payload, hasBody>>

\* reader.read() reports done: break. The upstream has closed the stream.
EndOfData ==
    /\ spc = "read"
    /\ input = <<>>
    /\ spc' = "end"
    /\ reader' = Finally(parser, "closed")
    /\ UNCHANGED <<parser, input, buffer, yielded, payload, hasBody, thrown>>

\* The lines a payload of the model is made of.
LineTexts ==
    { TxtDataSp \o <<"{", "a", "}">>,
      TxtDataSp \o <<"{", "b", "}">>,
      TxtDataSp \o <<"{", "t", "}">>,
      TxtDataSp \o <<"{", "a">>,
      TxtDataSp \o TxtDone,
      TxtKeep }

RECURSIVE Join(_)
Join(ls) == IF ls = <<>> THEN <<>> ELSE Head(ls) \o <<NL>> \o Join(Tail(ls))

\* Up to MaxLines lines, each ended by a newline except, possibly, the last.
Payloads ==
    LET seqs == UNION { [1 .. k -> LineTexts] : k \in 1 .. MaxLines }
    IN  { Join(ls) : ls \in seqs } \cup { TrimEnd(Join(ls)) : ls \in seqs }

RetryIdle ==
    /\ provider = "openrouter" /\ pc = "idle" /\ attempt = 0 /\ requests = 0
    /\ response = NoResponse /\ returned = NoResponse /\ delay = 0 /\ log = <<>>
    /\ rateLimits = [p \in Providers |-> Unknown]

\* A generator starts on a response body: nothing read, nothing yielded.
StreamInit ==
    /\ parser \in Parsers
    /\ payload \in Payloads
    /\ input = payload
    /\ buffer = <<>>
    /\ yielded = <<>>
    /\ spc = "read"
    /\ reader = "locked" /\ hasBody = TRUE /\ thrown = "none"

StreamSpecInit == RetryIdle /\ StreamInit /\ HandlerIdle /\ FailoverIdle /\ ExtraIdle

\* reader.read() may deliver any non-empty prefix of what is left.
StreamNext ==
    \/ \E n \in 1 .. Len(input) : Read(n) /\ UNCHANGED <<retryVars, handlerVars, failVars, extraVars>>
    \/ EndOfData /\ UNCHANGED <<retryVars, handlerVars, failVars, extraVars>>

StreamSpec == StreamSpecInit /\ [][StreamNext]_vars

\* The part of the payload the reader has delivered so far.
Consumed == SubSeq(payload, 1, Len(payload) - Len(input))

\* What the parser yields when `text` arrives in one single read.
OneRead(p, text) == ForLines(p, CompleteLines(Split(text)), <<>>)

\* C10: the increments yielded do not depend on how the payload is split into
\* reads: after any reads, they are the increments of the delivered text taken
\* as one read, a line being parsed only once its newline has arrived and the
\* partial trailing line being carried in the buffer.
C10_SplitInvariance ==
    /\ spc = "read" =>
          /\ yielded = OneRead(parser, Consumed).yielded
          /\ buffer = Last(Split(Consumed))
    /\ (spc = "end" /\ input = <<>>) => yielded = OneRead(parser, payload).yielded
    /\ spc = "end" => yielded = OneRead(parser, Consumed).yielded

C10_Witness ==
    /\ spc = "end" /\ parser = "frontend"
    /\ payload = Join(<<TxtDataSp \o <<"{", "a", "}">>, TxtDataSp \o <<"{", "b", "}">>>>)
    /\ yielded = <<"a", "b">>
    /\ buffer = <<>>

\* The complete lines the reader has delivered so far.
ConsumedLines == CompleteLines(Split(Consumed))

DoneLine == TxtDataSp \o TxtDone

\* The lines before the first `data: [DONE]` line, all of them if there is none.
BeforeDone(lines) ==
    IF \E i \in 1 .. Len(lines) : lines[i] = DoneLine
    THEN LET i == CHOOSE k \in 1 .. Len(lines) :
                      lines[k] = DoneLine /\ \A m \in 1 .. k - 1 : lines[m] # DoneLine
         IN  SubSeq(lines, 1, i - 1)
    ELSE lines

\* C11: in every stream parser a line `data: [DONE]` terminates the sequence:
\* whatever has been yielded comes from the lines before it, and no line after
\* it, in the same read or a later one, contributes an increment.
C11_DoneTerminates ==
    yielded = ForLines(parser, BeforeDone(ConsumedLines), <<>>).yielded

\* The same property for the frontend's chatStream alone, which returns at
\* `data: [DONE]`.
C11_FrontendDoneTerminates ==
    parser = "frontend" => C11_DoneTerminates

LineA      == TxtDataSp \o <<"{", "a", "}">>
LineB      == TxtDataSp \o <<"{", "b", "}">>
LineE      == TxtDataSp \o <<"{", "e", "}">>
LineT      == TxtDataSp \o <<"{", "t", "}">>
LineBroken == TxtDataSp \o <<"{", "a">>

ChatParsers == {"frontend", "openrouter", "parseSSEStream"}

\* The data lines a parser has to pass over: the payload is not JSON, or it is
\* a record of the other protocol (a token record for the chat parsers, a chat
\* chunk for the text-generation parser).
Unusable(p, line) ==
    \/ line = LineBroken
    \/ p \in ChatParsers /\ line = LineT
    \/ p = "parseTextGenStream" /\ line \in {LineA, LineB, LineE}

\* What a valid data line carries for a parser: the content of a chat chunk
\* (the SDK parsers hand on a chunk without content as it is, the frontend
\* yields text only), the text of a token record.
ContentOf(p, line) ==
    IF p \in ChatParsers /\ line = LineA THEN <<"a">>
    ELSE IF p \in ChatParsers /\ line = LineB THEN <<"b">>
    ELSE IF p \in {"openrouter", "parseSSEStream"} /\ line = LineE THEN <<NoContent>>
    ELSE IF p = "parseTextGenStream" /\ line = LineT THEN <<"t">>
    ELSE <<>>

RECURSIVE Contents(_, _)
Contents(p, lines) ==
    IF lines = <<>> THEN <<>> ELSE ContentOf(p, Head(lines)) \o Contents(p, Tail(lines))

IsPrefix(a, b) == Len(a) <= Len(b) /\ SubSeq(b, 1, Len(a)) = a

\* C12: a data line whose payload is not valid JSON, or is a record without the
\* expected fields, is passed over without an error being raised, and every
\* valid data line of the stream, the ones after it included, yields its
\* increment.
C12_MalformedSkipped ==
    /\ spc # "threw"
    /\ LET lines == BeforeDone(ConsumedLines)
       IN  (\E i \in 1 .. Len(lines) : Unusable(parser, lines[i]))
               => IsPrefix(Contents(parser, lines), yielded)

C12_Witness ==
    /\ spc = "end" /\ parser = "openrouter"
    /\ payload = Join(<<LineBroken, LineB>>)
    /\ yielded = <<"b">>

\* C13: within one stream the increments yielded are exactly the contents of
\* the valid data lines, in the order the lines were received: none is
\* reordered and none is yielded twice. The stream ends at the first
\* `data: [DONE]` line.
C13_ExactlyInOrder ==
    yielded = Contents(parser, BeforeDone(ConsumedLines))

\* The same property on the streams in which nothing follows `data: [DONE]`.
C13_NothingAfterDone ==
    Len(BeforeDone(ConsumedLines)) >= Len(ConsumedLines) - 1 =>
        yielded = Contents(parser, BeforeDone(ConsumedLines))

----------------------------------------------------------------------------
(* The stream consumers with all their ways out: the check of the body      *)
(* before the loop, the end of data, `data: [DONE]`, a consumer that stops  *)
(* iterating, and a read that fails.                                        *)

\* `if (!res.body) throw new Error('No response body')` (api.ts 178) and
\* `throw this.createError('No response body for streaming')` (openrouter.ts
\* 172-174, featherless.ts 172-174, part_004 322-324 and 383-385).
NoBodyError(p) ==
    IF p = "frontend" THEN "No response body" ELSE "No response body for streaming"

\* From the successful response to the loop: the body check, then getReader().
OpenStream ==
    /\ spc = "open"
    /\ IF hasBody
       THEN spc' = "read" /\ reader' = "locked" /\ thrown' = thrown
       ELSE spc' = "threw" /\ reader' = reader /\ thrown' = NoBodyError(parser)
    /\ UNCHANGED <<parser, input, buffer, yielded, payload, hasBody>>

\* The consumer leaves its `for await` at the k-th increment: the generator is
\* resumed with return() at the `yield` that delivered it, inside a read of n
\* bytes, and the rest of the body is never read.
ReadBreak(n, k) ==
    /\ spc = "read"
    /\ n \in 1 .. Len(input)
    /\ LET lines == Split(buffer \o SubSeq(input, 1, n))
           r == ForLines(parser, CompleteLines(lines), yielded)
       IN  /\ k \in Len(yielded) + 1 .. Len(r.yielded)
           /\ buffer' = CarryOver(lines)
           /\ yielded' = SubSeq(r.yielded, 1, k)
    /\ spc' = "end"
    /\ reader' = Finally(parser, reader)
    /\ input' = Slice(input, n)
    /\ UNCHANGED <<parser, payload, hasBody, thrown>>

\* `await reader.read()` rejects: the stream has failed and the generator
\* throws.
ReadError ==
    /\ spc = "read"
    /\ spc' = "threw"
    /\ thrown' = "read failed"
    /\ reader' = Finally(parser, "closed")
    /\ UNCHANGED <<parser, input, buffer, yielded, payload, hasBody>>

\* The bodies of the model's responses: up to MaxLines complete lines.
ConsumerPayloads ==
    LET texts == {TxtDataSp \o <<"{", "a", "}">>, TxtDataSp \o <<"{", "b", "}">>,
                  TxtDataSp \o TxtDone, TxtKeep}
    IN  { Join(ls) : ls \in UNION { [1 .. k -> texts] : k \in 1 .. MaxLines } }

\* A successful response to a streaming request, with or without a body.
ConsumerInit ==
    /\ parser \in Parsers
    /\ hasBody \in BOOLEAN
    /\ payload \in (IF hasBody THEN ConsumerPayloads ELSE {<<>>})
    /\ input = payload
    /\ buffer = <<>>
    /\ yielded = <<>>
    /\ spc = "open"
    /\ reader = "none" /\ thrown = "none"

ConsumerSpecInit == RetryIdle /\ ConsumerInit /\ HandlerIdle /\ FailoverIdle /\ ExtraIdle

ConsumerNext ==
    \/ OpenStream /\ UNCHANGED <<retryVars, handlerVars, failVars, extraVars>>
    \/ \E n \in 1 .. Len(input) : Read(n) /\ UNCHANGED <<retryVars, handlerVars, failVars, extraVars>>
    \/ \E n \in 1 .. Len(input), k \in 1 .. MaxLines :
           ReadBreak(n, k) /\ UNCHANGED <<retryVars, handlerVars, failVars, extraVars>>
    \/ EndOfData /\ UNCHANGED <<retryVars, handlerVars, failVars, extraVars>>
    \/ ReadError /\ UNCHANGED <<retryVars, handlerVars, failVars, extraVars>>

ConsumerSpec == ConsumerSpecInit /\ [][ConsumerNext]_vars

\* C14: in every stream consumer the reader is released or closed on every way
\* out: end of data, `data: [DONE]`, a consumer that stops early, a read error.
C14_ReaderReleased ==
    spc \in {"end", "threw"} /\ hasBody => reader \in {"released", "closed"}

\* The same property for the SDK parsers alone, whose loop is inside
\* try/finally.
C14_SdkReaderReleased ==
    parser # "frontend" /\ spc \in {"end", "threw"} /\ hasBody => reader = "released"

----------------------------------------------------------------------------
(* The chat handler of the backend, POST /api/:provider/chat/completions    *)
(* (part_001, lines 613-685), from the point where fetchWithRetry has       *)
(* returned, and its streaming relay (lines 645-673).                       *)

\* Largest number of lines of a payload the relay carries.
MaxRelayLines == 2

\* response.ok.
Ok(r) == r.status >= 200 /\ r.status <= 299

BodyNotJson == Body("text", TxtBadRequest)

\* The responses fetchWithRetry hands to the handler in the model.
HandlerResponses ==
    { Resp(200, BodyOk, Absent, NoRateHeaders),
      Resp(200, BodyNotJson, Absent, NoRateHeaders),
      Resp(400, BodyCold, Absent, NoRateHeaders),
      Resp(500, BodyBadRequest, Absent, NoRateHeaders) }

\* response.json() on a response without a body, or with one that is not JSON,
\* rejects with a SyntaxError; its message goes to the catch of line 677.
JsonError(r, body) ==
    IF ~body THEN "Unexpected end of JSON input"
    ELSE IF JsonThrows(r.body) THEN "Unexpected token"
    ELSE "none"

Reply(status, kind, error) ==
    [status |-> status, kind |-> kind, error |-> error, hint |-> "none"]

\* Lines 638-640: the `hint` of the error reply ("none": undefined).
Hint(status, p) ==
    IF status = 400 /\ p = "featherless"
    THEN "Model may be cold. The system will retry automatically."
    ELSE "none"

\* Lines 634-683: the error reply for a response that is not OK, the relay
\* for a streaming request whose response has a body, and response.json() in
\* every other case, whose failure the catch turns into a 500.
Respond ==
    /\ hpc = "respond"
    /\ IF ~Ok(returned)
       THEN /\ reply' = [Reply(returned.status, "error", "upstream")
                           EXCEPT !.hint = Hint(returned.status, provider)]
            /\ hpc' = "replied"
            /\ reader' = reader
       ELSE IF streaming /\ hasBody
       THEN /\ reply' = Reply(200, "stream", "none")
            /\ hpc' = "relay"
            /\ reader' = "locked"
       ELSE /\ reply' = IF JsonError(returned, hasBody) = "none"
                        THEN Reply(200, "json", "none")
                        ELSE Reply(500, "error", JsonError(returned, hasBody))
            /\ hpc' = "replied"
            /\ reader' = reader
    /\ UNCHANGED <<streaming, pushed, client, hasBody, payload, input>>
    /\ UNCHANGED <<parser, buffer, yielded, spc, thrown>>

\* Lines 654-670, one call of read() with a read of n bytes: the chunk is pushed
\* unless it includes the keep-alive text. A Readable calls read() again once
\* data has been pushed; after a chunk that was not pushed the relay either is
\* read again or stays where it is.
RelayRead(n) ==
    /\ hpc = "relay" /\ client = "connected"
    /\ n \in 1 .. Len(input)
    /\ LET chunk == SubSeq(input, 1, n)
       IN  IF ~Includes(chunk, TxtKeep)
           THEN pushed' = pushed \o chunk /\ hpc' = "relay"
           ELSE pushed' = pushed /\ hpc' \in {"relay", "stalled"}
    /\ input' = Slice(input, n)
    /\ UNCHANGED <<streaming, reply, client, hasBody, payload, reader>>
    /\ UNCHANGED <<parser, buffer, yielded, spc, thrown>>

\* Lines 657-660: reader.read() reports done and the relay ends with
\* push(null). The upstream has closed the stream.
RelayEnd ==
    /\ hpc = "relay" /\ client = "connected"
    /\ input = <<>>
    /\ hpc' = "replied"
    /\ reader' = "closed"
    /\ UNCHANGED <<streaming, reply, pushed, client, hasBody, payload, input>>
    /\ UNCHANGED <<parser, buffer, yielded, spc, thrown>>

\* Lines 666-668: reader.read() rejects and the Readable is destroyed.
RelayError ==
    /\ hpc = "relay" /\ client = "connected"
    /\ hpc' = "destroyed"
    /\ reader' = "closed"
    /\ UNCHANGED <<streaming, reply, pushed, client, hasBody, payload, input>>
    /\ UNCHANGED <<parser, buffer, yielded, spc, thrown>>

\* The client goes away while the relay pipes (line 673): `res` closes and
\* read() is not called any more. No handler is registered that would cancel
\* or release the reader.
ClientGone ==
    /\ hpc \in {"relay", "stalled"} /\ client = "connected"
    /\ client' = "gone"
    /\ hpc' = "abandoned"
    /\ UNCHANGED <<streaming, reply, pushed, hasBody, payload, input, reader>>
    /\ UNCHANGED <<parser, buffer, yielded, spc, thrown>>

RelayLines == {LineA, LineB, TxtKeep, <<>>}

RelayPayloads ==
    { Join(ls) : ls \in UNION { [1 .. k -> RelayLines] : k \in 1 .. MaxRelayLines } }

\* fetchWithRetry has just returned `returned` to the handler.
HandlerInit ==
    /\ provider \in {"openrouter", "featherless"}
    /\ pc = "done" /\ attempt = 0 /\ requests = 1
    /\ response = NoResponse /\ delay = 0 /\ log = <<>>
    /\ rateLimits = [p \in Providers |-> Unknown]
    /\ returned \in HandlerResponses
    /\ streaming \in BOOLEAN
    /\ hasBody \in BOOLEAN
    /\ payload \in (IF streaming /\ hasBody /\ returned = Resp(200, BodyOk, Absent, NoRateHeaders)
                    THEN RelayPayloads ELSE {<<>>})
    /\ input = payload
    /\ hpc = "respond" /\ reply = NoReply /\ pushed = <<>> /\ client = "connected"
    /\ reader = "none"
    /\ parser = "none" /\ buffer = <<>> /\ yielded = <<>> /\ spc = "end" /\ thrown = "none"

HandlerSpecInit == HandlerInit /\ FailoverIdle /\ ExtraIdle

HandlerNext ==
    \/ Respond /\ UNCHANGED <<retryVars, failVars, extraVars>>
    \/ \E n \in 1 .. Len(input) : RelayRead(n) /\ UNCHANGED <<retryVars, failVars, extraVars>>
    \/ RelayEnd /\ UNCHANGED <<retryVars, failVars, extraVars>>
    \/ RelayError /\ UNCHANGED <<retryVars, failVars, extraVars>>
    \/ ClientGone /\ UNCHANGED <<retryVars, failVars, extraVars>>

HandlerSpec == HandlerSpecInit /\ [][HandlerNext]_vars

\* The bytes the upstream has delivered to the relay so far.
Delivered == SubSeq(payload, 1, Len(payload) - Len(input))

\* The relay of C14: once it has ended, failed, or lost its client, the reader
\* is released or closed.
C14_RelayReaderReleased ==
    hpc \in {"replied", "destroyed", "abandoned"} /\ reply.kind = "stream"
        => reader \in {"released", "closed"}

\* The data lines among the complete lines of a text, in order.
RECURSIVE DataLines(_)
DataLines(lines) ==
    IF lines = <<>> THEN <<>>
    ELSE (IF StartsWith(Head(lines), TxtDataSp) THEN <<Head(lines)>> ELSE <<>>)
         \o DataLines(Tail(lines))

DataLinesOf(text) == DataLines(CompleteLines(Split(text)))

\* C15: keep-alive lines are discarded and nothing else is: the data lines the
\* backend relay has delivered downstream are exactly the data lines the
\* upstream has delivered to it, whether or not a keep-alive line came in the
\* same read as a data line.
C15_OnlyKeepAliveDropped ==
    hpc \in {"relay", "replied"} => DataLinesOf(pushed) = DataLinesOf(Delivered)

\* The lines of a text without its keep-alive lines.
RECURSIVE WithoutKeepAlive(_)
WithoutKeepAlive(lines) ==
    IF lines = <<>> THEN <<>>
    ELSE (IF Head(lines) = TxtKeep THEN <<>> ELSE <<Head(lines)>>)
         \o WithoutKeepAlive(Tail(lines))

\* The frontend's side of C15: chatStream yields what it would yield from the
\* same lines with the keep-alive lines taken out.
C15_FrontendOnlyKeepAliveDropped ==
    parser = "frontend" =>
        yielded = ForLines(parser, WithoutKeepAlive(ConsumedLines), <<>>).yielded

\* The other half of C15 for the relay: no keep-alive line reaches the client.
C15_RelayDropsKeepAlive == ~Includes(pushed, TxtKeep)

\* The messages of the empty-stream error in the code.
EmptyStreamErrors == {"No response body", "No response body for streaming"}

\* C16: when streaming was requested and the successful response has no body,
\* the backend chat handler answers with the empty-stream error: the response
\* is not decoded as a non-streaming JSON response.
C16_EmptyStream ==
    hpc # "respond" /\ streaming /\ Ok(returned) /\ ~hasBody =>
        reply.kind = "error" /\ reply.error \in EmptyStreamErrors

\* The same for the stream consumers of the SDK and the frontend: without a
\* body they throw the empty-stream error before anything is read or yielded.
C16_ConsumersEmptyStream ==
    spc # "open" /\ ~hasBody =>
        /\ spc = "threw" /\ thrown \in EmptyStreamErrors
        /\ yielded = <<>> /\ reader = "none"

----------------------------------------------------------------------------
(* The failover handler, POST /api/failover/chat/completions (part_001,     *)
(* lines 916-970), as it runs once a request has been handed to it.         *)

Entry(p, m) == [provider |-> p, model |-> m]

\* Lines 916-930.
FAILOVER_CHAINS ==
    [c \in {"gpt-4-class", "claude-class", "llama-70b-class"} |->
        CASE c = "gpt-4-class" ->
                 <<Entry("openrouter", "openai/gpt-4o"),
                   Entry("together", "meta-llama/Llama-3.3-70B-Instruct-Turbo")>>
          [] c = "claude-class" ->
                 <<Entry("openrouter", "anthropic/claude-3-sonnet"),
                   Entry("venice", "qwen3-235b")>>
          [] c = "llama-70b-class" ->
                 <<Entry("together", "meta-llama/Llama-3.3-70B-Instruct-Turbo"),
                   Entry("featherless", "meta-llama/Meta-Llama-3.1-70B-Instruct"),
                   Entry("openrouter", "meta-llama/llama-3.1-70b-instruct")>>]

\* Names every object literal inherits from Object.prototype; their values are
\* functions or objects, none of them iterable.
InheritedNames == {"constructor", "toString", "valueOf", "hasOwnProperty", "__proto__"}

\* `FAILOVER_CHAINS[modelClass]`, a property lookup on an object literal: an
\* own key gives its array, an inherited name gives the inherited value, any
\* other label gives undefined.
ChainLookup(c) ==
    IF c \in DOMAIN FAILOVER_CHAINS THEN [kind |-> "array", chain |-> FAILOVER_CHAINS[c]]
    ELSE IF c \in InheritedNames THEN [kind |-> "inherited", chain |-> <<>>]
    ELSE [kind |-> "undefined", chain |-> <<>>]

Chain == ChainLookup(modelClass).chain

\* Line 945.
EnvKey(p) ==
    CASE p = "huggingface" -> "HF_TOKEN"
      [] p = "openrouter"  -> "OPENROUTER_API_KEY"
      [] p = "featherless" -> "FEATHERLESS_API_KEY"
      [] p = "venice"      -> "VENICE_API_KEY"
      [] p = "together"    -> "TOGETHER_API_KEY"

NoCredentialCheck(p, e) == TRUE

\* Line 946: `process.env[envKey]` is set and not empty.
HasCredentials(p, e) == EnvKey(p) \in e

\* Lines 941-942: `PROVIDERS[provider]` is defined.
HasConfig(p) == p \in Providers

EntryReversed(c, i) == c[Len(c) + 1 - i]

\* Line 940: the i-th entry `for (const { provider, model } of chain)` visits.
EntryAt(c, i) == c[i]

SameIndex(i) == i

\* Line 940: the loop moves on to the following entry.
NextIndex(i) == i + 1

Result(status, error, p, m) ==
    [status |-> status, error |-> error, provider |-> p, model |-> m]

\* Lines 933-940: the lookup of the chain. An undefined chain is answered with
\* 400; an inherited value passes `!chain` and `for ... of` throws a TypeError
\* outside any try, so the handler's promise rejects: the handler answers
\* nothing, and what the client gets is up to the framework (no answer, or the
\* answer of its error handler, a 500).
Lookup ==
    /\ fpc = "lookup"
    /\ LET found == ChainLookup(modelClass)
       IN  CASE found.kind = "undefined" ->
                    /\ result' = Result(400, "Unknown model class", "none", "none")
                    /\ fpc' = "finished" /\ idx' = idx
             [] found.kind = "inherited" ->
                    /\ result' \in {result, Result(500, "TypeError", "none", "none")}
                    /\ fpc' = "crashed" /\ idx' = idx
             [] found.kind = "array" ->
                    /\ result' = result
                    /\ fpc' = "entry" /\ idx' = 1
    /\ UNCHANGED <<modelClass, env, dispatched, contacted>>

\* Lines 941-946: an entry without configuration or credentials is passed over.
SkipEntry ==
    /\ fpc = "entry" /\ idx <= Len(Chain)
    /\ LET e == EntryAt(Chain, idx)
       IN  ~(HasConfig(e.provider) /\ HasCredentials(e.provider, env))
    /\ idx' = NextIndex(idx)
    /\ UNCHANGED <<modelClass, env, fpc, dispatched, contacted, result>>

\* Line 954: the `model` of JSON.stringify({ model, messages, ...rest }). The
\* spread comes last, so a `model` among the caller's extra parameters
\* replaces the entry's. `given` is <<>> without such a parameter and <<m>>
\* with the model m.
UpstreamModel(model, given) == IF given # <<>> THEN given[1] ELSE model

\* Lines 948-957: fetchWithRetry is called for the entry, which issues the
\* first request.
Dispatch ==
    /\ fpc = "entry" /\ idx <= Len(Chain)
    /\ LET e == EntryAt(Chain, idx)
       IN  /\ HasConfig(e.provider) /\ HasCredentials(e.provider, env)
           /\ provider' = e.provider
           /\ dispatched' = Append(dispatched,
                                   [entry |-> e, outcome |-> "pending",
                                    sent |-> UpstreamModel(e.model, request.model)])
           /\ contacted' = contacted \cup {e.provider}
    /\ pc' = "fetch" /\ attempt' = 0 /\ requests' = 1
    /\ response' = NoResponse /\ returned' = NoResponse /\ delay' = 0 /\ log' = <<>>
    /\ fpc' = "dispatch"
    /\ UNCHANGED <<rateLimits, modelClass, env, idx, result>>

\* A response arrives inside fetchWithRetry.
FetchStep(r) ==
    /\ fpc = "dispatch"
    /\ (ColdRetry(r) \/ ColdReturn(r) \/ HuggingFaceRetry(r) \/ GenericRetry(r)
           \/ FinalReturn(r))
    /\ UNCHANGED failVars

\* sleep(delay) resolves inside fetchWithRetry and the next request goes out.
FetchWake ==
    /\ fpc = "dispatch"
    /\ Wake
    /\ contacted' = contacted \cup {provider}
    /\ UNCHANGED <<modelClass, env, idx, fpc, dispatched, result>>

\* Line 517: fetch() rejects; fetchWithRetry has no catch and rejects too.
FetchThrows ==
    /\ fpc = "dispatch"
    /\ pc = "fetch"
    /\ pc' = "threw"
    /\ UNCHANGED <<provider, attempt, requests, response, returned, delay, log, rateLimits>>
    /\ UNCHANGED failVars

SetOutcome(d, o) == [d EXCEPT ![Len(d)].outcome = o]

EntryDoneAborting ==
    /\ fpc = "dispatch"
    /\ pc \in {"done", "threw"}
    /\ LET e == EntryAt(Chain, idx)
       IN  IF pc = "done" /\ Ok(returned) /\ ~JsonThrows(returned.body)
           THEN /\ result' = Result(200, "none", e.provider, e.model)
                /\ fpc' = "finished"
                /\ idx' = idx
                /\ dispatched' = SetOutcome(dispatched, "ok")
           ELSE IF pc = "threw"
           THEN /\ result' = Result(500, "fetch failed", "none", "none")
                /\ fpc' = "finished"
                /\ idx' = idx
                /\ dispatched' = SetOutcome(dispatched, "failed")
           ELSE /\ result' = result
                /\ fpc' = "entry"
                /\ idx' = NextIndex(idx)
                /\ dispatched' = SetOutcome(dispatched, "failed")
    /\ UNCHANGED <<modelClass, env, contacted>>
    /\ UNCHANGED retryVars

\* Lines 959-966: an OK response is decoded and returned with its tags; a
\* response that is not OK, a body that cannot be decoded and a rejection all
\* lead to the following entry.
EntryDone ==
    /\ fpc = "dispatch"
    /\ pc \in {"done", "threw"}
    /\ LET e == EntryAt(Chain, idx)
       IN  IF pc = "done" /\ Ok(returned) /\ ~JsonThrows(returned.body)
           THEN /\ result' = Result(200, "none", e.provider, e.model)
                /\ fpc' = "finished"
                /\ idx' = idx
                /\ dispatched' = SetOutcome(dispatched, "ok")
           ELSE /\ result' = result
                /\ fpc' = "entry"
                /\ idx' = NextIndex(idx)
                /\ dispatched' = SetOutcome(dispatched, "failed")
    /\ UNCHANGED <<modelClass, env, contacted>>
    /\ UNCHANGED retryVars

\* Line 969: the loop has run through the chain.
Exhausted ==
    /\ fpc = "entry" /\ idx > Len(Chain)
    /\ result' = Result(503, "All providers in failover chain failed", "none", "none")
    /\ fpc' = "finished"
    /\ UNCHANGED <<modelClass, env, idx, dispatched, contacted>>

\* The labels of the model's requests: the three chains, a label that is not a
\* key, and an inherited name.
ModelClasses == DOMAIN FAILOVER_CHAINS \cup {"gpt-5-class", "constructor"}

EnvKeys == {EnvKey(p) : p \in {"openrouter", "together", "venice", "featherless"}}

\* The responses a provider sends to a request of the failover handler.
FailoverResponses ==
    { Resp(200, BodyOk, Absent, NoRateHeaders),
      Resp(200, BodyNotJson, Absent, NoRateHeaders),
      Resp(400, BodyCold, Absent, NoRateHeaders),
      Resp(401, BodyBadRequest, Absent, NoRateHeaders),
      Resp(500, BodyBadRequest, Absent,
           [limit |-> <<1>>, remaining |-> <<1>>, reset |-> Absent]) }

\* The `model` the caller may have put among the extra parameters of the
\* body: none, the model of a chain entry, or another one.
GivenModels == {<<>>, <<"openai/gpt-4o">>, <<"my-model">>}

\* The handler has received a request body with `modelClass`, and maybe with
\* a `model` of the caller's.
FailoverInit ==
    /\ modelClass \in ModelClasses
    /\ env \in SUBSET EnvKeys
    /\ idx = 0 /\ fpc = "lookup"
    /\ dispatched = <<>> /\ contacted = {} /\ result = NoResult
    /\ request \in {[method |-> "POST", path |-> <<"failover", "chat", "completions">>,
                      model |-> g] : g \in GivenModels}
    /\ served = "failover" /\ rpc = "failover" /\ answer = NoAnswer

FailoverSpecInit ==
    RetryIdle /\ StreamIdle /\ HandlerIdle /\ FailoverInit /\ RateIdle /\ CacheIdle /\ SdkIdle /\ UiIdle

FailoverNext ==
    \/ Lookup /\ UNCHANGED <<retryVars, streamVars, handlerVars, extraVars>>
    \/ SkipEntry /\ UNCHANGED <<retryVars, streamVars, handlerVars, extraVars>>
    \/ Dispatch /\ UNCHANGED <<streamVars, handlerVars, extraVars>>
    \/ \E r \in FailoverResponses : FetchStep(r) /\ UNCHANGED <<streamVars, handlerVars, extraVars>>
    \/ FetchWake /\ UNCHANGED <<streamVars, handlerVars, extraVars>>
    \/ FetchThrows /\ UNCHANGED <<streamVars, handlerVars, extraVars>>
    \/ EntryDone /\ UNCHANGED <<streamVars, handlerVars, extraVars>>
    \/ Exhausted /\ UNCHANGED <<retryVars, streamVars, handlerVars, extraVars>>

FailoverSpec == FailoverSpecInit /\ [][FailoverNext]_vars

----------------------------------------------------------------------------
(* Properties of the failover handler.                                      *)

\* The entries of a chain whose provider has its credentials set, in order.
RECURSIVE Configured(_)
Configured(c) ==
    IF c = <<>> THEN <<>>
    ELSE (IF EnvKey(Head(c).provider) \in env THEN <<Head(c)>> ELSE <<>>)
         \o Configured(Tail(c))

Entries(d) == [i \in 1 .. Len(d) |-> d[i].entry]

\* C17: no HTTP request is issued to a chain entry whose provider lacks
\* credentials and fetchWithRetry is never called for it; for a chain
\* [(A, m1), (B, m2)] where A lacks credentials and B's dispatch succeeds, the
\* result is tagged _provider = B and _model = m2 and B is the only entry
\* dispatched.
C17_UnconfiguredSkipped ==
    /\ \A p \in contacted : EnvKey(p) \in env
    /\ \A i \in 1 .. Len(dispatched) : EnvKey(dispatched[i].entry.provider) \in env
    /\ (/\ Len(Chain) = 2
        /\ EnvKey(Chain[1].provider) \notin env
        /\ result.status = 200)
           => /\ result.provider = Chain[2].provider
              /\ result.model = Chain[2].model
              /\ Len(dispatched) = 1
              /\ dispatched[1].entry = Chain[2] /\ dispatched[1].outcome = "ok"
              /\ contacted = {Chain[2].provider}

C17_Witness ==
    /\ modelClass = "gpt-4-class" /\ env = {"TOGETHER_API_KEY"}
    /\ fpc = "finished"
    /\ result = Result(200, "none", "together", "meta-llama/Llama-3.3-70B-Instruct-Turbo")

\* The most requests one call of fetchWithRetry issues for a provider.
Budget(p) == IF p = "featherless" THEN 6 ELSE 4

\* C18: when every chain entry has been skipped or has failed terminally the
\* answer is AllProvidersFailed (503), and each entry was handed to
\* fetchWithRetry at most once: no entry is revisited, and no entry gets more
\* requests than one call of fetchWithRetry issues.
C18_AllProvidersFailed ==
    /\ \A i, j \in 1 .. Len(dispatched) : i # j => dispatched[i].entry # dispatched[j].entry
    /\ Len(dispatched) <= Len(Chain)
    /\ fpc = "dispatch" => requests <= Budget(provider)
    /\ (/\ fpc = "finished"
        /\ modelClass \in DOMAIN FAILOVER_CHAINS
        /\ \A i \in 1 .. Len(dispatched) : dispatched[i].outcome = "failed")
           => /\ result = Result(503, "All providers in failover chain failed", "none", "none")
              /\ Entries(dispatched) = Configured(Chain)

C18_Witness ==
    /\ modelClass = "llama-70b-class" /\ env = EnvKeys
    /\ fpc = "finished" /\ result.status = 503
    /\ Len(dispatched) = 3

\* C19: the chain is walked strictly in order, one entry at a time: an entry is
\* dispatched only after every configured entry before it was dispatched and
\* ended without success; the result comes from the earliest configured entry
\* whose dispatch succeeds, and no entry after it is dispatched.
C19_InOrder ==
    /\ IsPrefix(Entries(dispatched), Configured(Chain))
    /\ \A i \in 1 .. Len(dispatched) - 1 : dispatched[i].outcome = "failed"
    /\ fpc = "dispatch" =>
          /\ dispatched # <<>>
          /\ Last(dispatched).outcome = "pending"
          /\ provider = Last(dispatched).entry.provider
    /\ fpc # "dispatch" => \A i \in 1 .. Len(dispatched) : dispatched[i].outcome # "pending"
    /\ result.status = 200 =>
          /\ fpc = "finished" /\ dispatched # <<>>
          /\ Last(dispatched).outcome = "ok"
          /\ result.provider = Last(dispatched).entry.provider
          /\ result.model = Last(dispatched).entry.model
    /\ (\E i \in 1 .. Len(dispatched) : dispatched[i].outcome = "ok") => result.status = 200

C19_Witness ==
    /\ modelClass = "llama-70b-class" /\ env = EnvKeys
    /\ fpc = "finished"
    /\ result = Result(200, "none", "openrouter", "meta-llama/llama-3.1-70b-instruct")
    /\ Len(dispatched) = 3

\* C20: for every label that is not a key of the chains, inherited property
\* names included, the handler answers 400 UnknownModelClass right away and
\* issues no upstream request.
C20_UnknownModelClass ==
    modelClass \notin DOMAIN FAILOVER_CHAINS /\ fpc \notin {"idle", "lookup"} =>
        /\ fpc = "finished"
        /\ result = Result(400, "Unknown model class", "none", "none")
        /\ contacted = {} /\ dispatched = <<>>

\* The same property for the labels that are not inherited property names.
C20_PlainUnknownModelClass ==
    modelClass \notin InheritedNames => C20_UnknownModelClass

----------------------------------------------------------------------------
(* The text of the failover handler's answers.                              *)

\* Line 969: the `error` of the 503 answer.
TxtAllFailed ==
    <<"A", "l", "l", " ", "p", "r", "o", "v", "i", "d", "e", "r", "s", " ", "i", "n", " ", "f", "a", "i", "l", "o", "v", "e", "r", " ", "c", "h", "a", "i", "n", " ", "f", "a", "i", "l", "e", "d">>

TxtClass(c) ==
    CASE c = "gpt-4-class"     -> <<"g", "p", "t", "-", "4", "-", "c", "l", "a", "s", "s">>
      [] c = "claude-class"    -> <<"c", "l", "a", "u", "d", "e", "-", "c", "l", "a", "s", "s">>
      [] c = "llama-70b-class" -> <<"l", "l", "a", "m", "a", "-", "7", "0", "b", "-", "c", "l", "a", "s", "s">>
      [] OTHER                 -> <<"?">>

TxtProvider(p) ==
    CASE p = "openrouter"  -> <<"o", "p", "e", "n", "r", "o", "u", "t", "e", "r">>
      [] p = "together"    -> <<"t", "o", "g", "e", "t", "h", "e", "r">>
      [] p = "venice"      -> <<"v", "e", "n", "i", "c", "e">>
      [] p = "featherless" -> <<"f", "e", "a", "t", "h", "e", "r", "l", "e", "s", "s">>
      [] p = "huggingface" -> <<"h", "u", "g", "g", "i", "n", "g", "f", "a", "c", "e">>
      [] OTHER             -> <<"?">>

\* The text a client reads in the `error` field of an answer.
ErrorText(e) ==
    IF e = "All providers in failover chain failed" THEN TxtAllFailed ELSE <<>>

\* C21: the AllProvidersFailed answer identifies the chain that was exhausted:
\* it names the model class, or the providers of the chain's entries.
C21_ChainIdentified ==
    fpc = "finished" /\ result.status = 503 =>
        \/ Includes(ErrorText(result.error), TxtClass(modelClass))
        \/ \A i \in 1 .. Len(Chain) :
               Includes(ErrorText(result.error), TxtProvider(Chain[i].provider))
        \/ result.provider # "none"
        \/ result.model # "none"

----------------------------------------------------------------------------
(* The routes of the server (part_001, lines 572-975) and the first steps   *)
(* of their handlers: the lookup of the provider and, for the HuggingFace   *)
(* to Featherless route, the rewrite of the model.                          *)

\* Largest number of path segments after /api.
MaxSegments == 4

\* The number of pieces a model identifier of the model is made of, at most.
MaxPieces == 3

Route(m, pattern, name) == [method |-> m, pattern |-> pattern, name |-> name]

\* The routes in the order they are registered, paths without the leading /api.
Routes ==
    << Route("GET", <<"health">>, "health"),
       Route("GET", <<"providers">>, "providers"),
       Route("POST", <<":provider", "chat", "completions">>, "chat"),
       Route("GET", <<":provider", "models">>, "models"),
       Route("POST", <<":provider", "images", "generations">>, "images"),
       Route("POST", <<"huggingface", "featherless", "chat", "completions">>, "hfFeatherless"),
       Route("GET", <<"venice", "characters">>, "characters"),
       Route("POST", <<":provider", "embeddings">>, "embeddings"),
       Route("POST", <<"together", "files">>, "files"),
       Route("POST", <<"failover", "chat", "completions">>, "failover"),
       Route("ALL", <<":provider", "*">>, "proxy") >>

\* A route path against a request path, segment by segment: `:provider`
\* takes one segment, `*` takes what follows the slash after it.
RECURSIVE Match(_, _)
Match(pattern, path) ==
    IF pattern = <<>> THEN path = <<>>
    ELSE IF Head(pattern) = "*" THEN path # <<>>
    ELSE /\ path # <<>>
         /\ (Head(pattern) = ":provider" \/ Head(pattern) = Head(path))
         /\ Match(Tail(pattern), Tail(path))

Matches(route, req) ==
    /\ route.method \in {"ALL", req.method}
    /\ Match(route.pattern, req.path)

MatchFrom(routes, i, req) ==
    IF \E k \in i .. Len(routes) : Matches(routes[k], req)
    THEN routes[CHOOSE k \in i .. Len(routes) :
                    /\ Matches(routes[k], req)
                    /\ \A j \in i .. k - 1 : ~Matches(routes[j], req)].name
    ELSE "none"

LastMatch(routes, req) ==
    IF \E k \in 1 .. Len(routes) : Matches(routes[k], req)
    THEN routes[CHOOSE k \in 1 .. Len(routes) :
                    /\ Matches(routes[k], req)
                    /\ \A j \in k + 1 .. Len(routes) : ~Matches(routes[j], req)].name
    ELSE "none"

\* Express hands the request to the first registered route that matches; no
\* handler of this server calls next().
FirstMatch(routes, req) == MatchFrom(routes, 1, req)

\* `PROVIDERS[provider]`, a property lookup on an object literal.
ProviderLookup(p) ==
    IF p \in Providers THEN "config"
    ELSE IF p \in InheritedNames THEN "inherited"
    ELSE "undefined"

\* Lines 389-466: features.imageGen.
ImageGen(p) == p # "featherless"

TxtSuffix == <<":", "f", "e", "a", "t", "h", "e", "r", "l", "e", "s", "s", "-", "a", "i">>

AppendAlways(model) == model \o TxtSuffix

\* Lines 775-779: the suffix is appended unless the model includes it.
Rewrite(model) == IF ~Includes(model, TxtSuffix) THEN model \o TxtSuffix ELSE model

Answer(status, error) == [status |-> status, error |-> error, model |-> <<>>]

\* The error of the 500 a handler's catch answers with (lines 677-683,
\* 722-725, 884-886, 1008-1010).
CaughtError(name) ==
    CASE name = "chat"       -> "config.getHeaders is not a function"
      [] name = "models"     -> "Failed to fetch models"
      [] name = "embeddings" -> "Embeddings request failed"
      [] name = "proxy"      -> "Request failed"

\* Lines 614-619, 691-696, 858-863, 976-981: an undefined config is answered
\* with 400. An inherited value passes `!config`; the handler then evaluates
\* `config.getHeaders()` inside its try while it builds the arguments of
\* fetchWithRetry, which throws a TypeError, and the catch answers 500.
LookupStep(name, p) ==
    CASE ProviderLookup(p) = "undefined" ->
             /\ answer' = Answer(400, "Unknown provider")
             /\ rpc' = "answered"
      [] ProviderLookup(p) = "inherited" ->
             /\ answer' = Answer(500, CaughtError(name))
             /\ rpc' = "answered"
      [] ProviderLookup(p) = "config" ->
             /\ answer' = answer
             /\ rpc' = "upstream"

\* Lines 733-738: `config.features.imageGen` of an inherited value throws
\* outside any try.
ImagesStep(p) ==
    CASE ProviderLookup(p) = "undefined" ->
             /\ answer' = Answer(400, "Image generation not supported")
             /\ rpc' = "answered"
      [] ProviderLookup(p) = "inherited" ->
             /\ answer' = answer
             /\ rpc' = "crashed"
      [] ProviderLookup(p) = "config" ->
             IF ImageGen(p)
             THEN answer' = answer /\ rpc' = "upstream"
             ELSE answer' = Answer(400, "Image generation not supported") /\ rpc' = "answered"

\* The router picks the handler.
RouteRequest ==
    /\ rpc = "arrived"
    /\ served' = FirstMatch(Routes, request)
    /\ rpc' = "routed"
    /\ UNCHANGED <<request, answer>>

\* The handler runs up to its answer or to its call of the provider.
Handle ==
    /\ rpc = "routed"
    /\ CASE served \in {"chat", "models", "embeddings", "proxy"} ->
                LookupStep(served, request.path[1])
         [] served = "images" -> ImagesStep(request.path[1])
         [] served = "hfFeatherless" ->
                /\ answer' = [answer EXCEPT !.model = Rewrite(request.model)]
                /\ rpc' = "upstream"
         [] served = "failover" -> answer' = answer /\ rpc' = "failover"
         [] served = "none" -> answer' = Answer(404, "Not Found") /\ rpc' = "answered"
         [] OTHER -> answer' = answer /\ rpc' = "upstream"
    /\ UNCHANGED <<request, served>>

Segments ==
    {"failover", "openrouter", "huggingface", "featherless", "constructor",
     "chat", "completions", "models", "embeddings"}

Paths == UNION { [1 .. k -> Segments] : k \in 1 .. MaxSegments }

RECURSIVE Concat(_)
Concat(ps) == IF ps = <<>> THEN <<>> ELSE Head(ps) \o Concat(Tail(ps))

\* Model identifiers: up to MaxPieces pieces, each the letter m or the suffix.
Models ==
    { Concat(ps) : ps \in UNION { [1 .. k -> {<<"m">>, TxtSuffix}] : k \in 1 .. MaxPieces } }

HfFeatherlessPath == <<"huggingface", "featherless", "chat", "completions">>

\* A request arrives; the body's model matters to the rewriting route only.
RouteInit ==
    /\ \E m \in {"GET", "POST"}, p \in Paths :
           \E md \in (IF m = "POST" /\ p = HfFeatherlessPath THEN Models ELSE {<<>>}) :
               request = [method |-> m, path |-> p, model |-> md]
    /\ served = "none" /\ rpc = "arrived" /\ answer = NoAnswer

RouterSpecInit ==
    RetryIdle /\ StreamIdle /\ HandlerIdle /\ FailoverIdle /\ RouteInit /\ RateIdle /\ CacheIdle /\ SdkIdle /\ UiIdle

RouterNext ==
    \/ RouteRequest /\ UNCHANGED <<retryVars, streamVars, handlerVars, failVars, rateVars, cacheVars, sdkVars, uiVars>>
    \/ Handle /\ UNCHANGED <<retryVars, streamVars, handlerVars, failVars, rateVars, cacheVars, sdkVars, uiVars>>

RouterSpec == RouterSpecInit /\ [][RouterNext]_vars

FailoverPath == <<"failover", "chat", "completions">>

\* C22: a POST to /api/failover/chat/completions is served by the failover
\* handler: no route registered earlier answers it instead.
C22_FailoverServed ==
    rpc # "arrived" /\ request.method = "POST" /\ request.path = FailoverPath =>
        served = "failover"

\* The handlers that look the provider up and answer UnknownProvider.
LookupHandlers == {"chat", "models", "embeddings", "proxy"}

\* C27: for every provider identifier that is not one of the five configured
\* ones, inherited property names included, the chat, models, embeddings and
\* generic-proxy handlers answer 400 UnknownProvider and send nothing upstream.
C27_UnknownProvider ==
    /\ rpc \notin {"arrived", "routed"}
    /\ served \in LookupHandlers
    /\ request.path[1] \notin Providers
    => /\ rpc = "answered"
       /\ answer.status = 400
       /\ answer.error = "Unknown provider"

\* The same for the identifiers that name no property at all, and the part of
\* C27 that holds for every identifier: nothing is sent upstream.
C27_PlainUnknownProvider ==
    /\ rpc \notin {"arrived", "routed"}
    /\ served \in LookupHandlers
    /\ request.path[1] \notin Providers
    => /\ rpc = "answered"
       /\ request.path[1] \notin InheritedNames =>
              answer.status = 400 /\ answer.error = "Unknown provider"

EndsWith(s, suf) == Len(s) >= Len(suf) /\ SubSeq(s, Len(s) - Len(suf) + 1, Len(s)) = suf

\* C28: the HuggingFace to Featherless route sends a model that ends with
\* ':featherless-ai': the suffix is appended when the incoming model lacks it,
\* the model is left alone when it already ends with it, and rewriting the
\* rewritten model changes nothing.
C28_SuffixOnce ==
    rpc = "upstream" /\ served = "hfFeatherless" =>
        /\ EndsWith(answer.model, TxtSuffix)
        /\ ~Includes(request.model, TxtSuffix) => answer.model = request.model \o TxtSuffix
        /\ EndsWith(request.model, TxtSuffix) => answer.model = request.model
        /\ Rewrite(answer.model) = answer.model

\* What the rewrite does guarantee: the upstream model includes the suffix, a
\* model that includes it is sent as it came, and the rewrite is idempotent.
C28_SuffixIncluded ==
    rpc = "upstream" /\ served = "hfFeatherless" =>
        /\ Includes(answer.model, TxtSuffix)
        /\ ~Includes(request.model, TxtSuffix) => answer.model = request.model \o TxtSuffix
        /\ Includes(request.model, TxtSuffix) => answer.model = request.model
        /\ Rewrite(answer.model) = answer.model

----------------------------------------------------------------------------
(* Rate-limit tracking inside fetchWithRetry (part_001, lines 484-498 and   *)
(* 516-526): the responses carry rate-limit headers.                        *)

\* Largest number of responses whose arrival is recorded in `landed`.
MaxLanded == 3

RateA         == [limit |-> <<1>>, remaining |-> <<1>>, reset |-> <<1>>]
RateB         == [limit |-> <<2>>, remaining |-> <<0>>, reset |-> Absent]
OnlyLimit     == [limit |-> <<3>>, remaining |-> Absent, reset |-> <<2>>]
OnlyRemaining == [limit |-> Absent, remaining |-> <<3>>, reset |-> Absent]

Rates == {NoRateHeaders, OnlyLimit, OnlyRemaining, RateA, RateB}

RateResponses ==
    { Resp(sb[1], sb[2], Absent, rate) :
        sb \in {<<200, BodyOk>>, <<400, BodyCold>>, <<400, BodyBadRequest>>,
                <<429, BodyBadRequest>>, <<502, BodyBadRequest>>},
        rate \in Rates }

\* The response r arrives at a call for provider p.
Landing(p, r) ==
    /\ Len(landed) < MaxLanded
    /\ landed' = Append(landed, [provider |-> p, rate |-> r.rate])

RateNext ==
    \/ \E r \in RateResponses : ColdRetry(r) /\ Landing(provider, r)
                                /\ UNCHANGED <<streamVars, handlerVars, failVars, routeVars, calls, cacheVars, sdkVars, uiVars>>
    \/ \E r \in RateResponses : ColdReturn(r) /\ Landing(provider, r)
                                /\ UNCHANGED <<streamVars, handlerVars, failVars, routeVars, calls, cacheVars, sdkVars, uiVars>>
    \/ \E r \in RateResponses : HuggingFaceRetry(r) /\ Landing(provider, r)
                                /\ UNCHANGED <<streamVars, handlerVars, failVars, routeVars, calls, cacheVars, sdkVars, uiVars>>
    \/ \E r \in RateResponses : GenericRetry(r) /\ Landing(provider, r)
                                /\ UNCHANGED <<streamVars, handlerVars, failVars, routeVars, calls, cacheVars, sdkVars, uiVars>>
    \/ \E r \in RateResponses : FinalReturn(r) /\ Landing(provider, r)
                                /\ UNCHANGED <<streamVars, handlerVars, failVars, routeVars, calls, cacheVars, sdkVars, uiVars>>
    \/ Wake /\ UNCHANGED <<streamVars, handlerVars, failVars, extraVars>>

RateSpec == Init /\ [][RateNext]_vars

\* A response that carries both the limit and the remaining header.
Complete(rate) == rate.limit # Absent /\ rate.remaining # Absent

\* The responses for provider p that carried both headers, by arrival.
CompleteFor(p) ==
    {i \in 1 .. Len(landed) : landed[i].provider = p /\ Complete(landed[i].rate)}

MostRecent(p) == CHOOSE i \in CompleteFor(p) : \A j \in CompleteFor(p) : j <= i

\* C23: parseRateLimitHeaders leaves every snapshot as it was when the
\* response lacks the limit header, the remaining header or both; a snapshot
\* changes only when a response for its provider carrying both headers
\* arrives.
C23_FrameEffect ==
    [][ \A p \in Providers :
          rateLimits'[p] # rateLimits[p] =>
              /\ Len(landed') = Len(landed) + 1
              /\ landed'[Len(landed')].provider = p
              /\ Complete(landed'[Len(landed')].rate) ]_vars

\* A response lacking a header has arrived after one that carried both, and
\* the snapshot is still the earlier one's.
C23_Witness ==
    /\ Len(landed) >= 2
    /\ ~Complete(landed[Len(landed)].rate)
    /\ landed[Len(landed)].rate # NoRateHeaders
    /\ Complete(landed[Len(landed) - 1].rate)
    /\ rateLimits[provider].known
    /\ rateLimits[provider].limit = landed[Len(landed) - 1].rate.limit[1]

\* C24: the headers of every response fetchWithRetry receives are recorded,
\* whatever happens to the response next: the snapshot of a provider holds
\* the limit and remaining of the most recent response for it that carried
\* both headers, and no snapshot exists before such a response.
C24_MostRecentRecorded ==
    \A p \in Providers :
        IF CompleteFor(p) = {}
        THEN rateLimits[p] = Unknown
        ELSE /\ rateLimits[p].known
             /\ rateLimits[p].limit = landed[MostRecent(p)].rate.limit[1]
             /\ rateLimits[p].remaining = landed[MostRecent(p)].rate.remaining[1]

\* The headers of a response that is retried have replaced those of an
\* earlier response, and the call has not returned yet.
C24_Witness ==
    /\ pc = "sleep"
    /\ Cardinality(CompleteFor(provider)) >= 2
    /\ landed[Len(landed)].rate = RateB
    /\ rateLimits[provider].limit = 2 /\ rateLimits[provider].remaining = 0

----------------------------------------------------------------------------
(* Concurrent logical calls of fetchWithRetry (part_001, lines 509-567):    *)
(* each call has its own frame, all of them write the one Map rateLimits.   *)
(* A handler runs to its next await without interruption, so the arrival of *)
(* a response, the recording of its headers and the retry decision are one  *)
(* step.                                                                    *)

\* Number of logical calls that run at the same time.
MaxCalls == 2

Frame(p, at, a) == [provider |-> p, pc |-> at, attempt |-> a]

\* Lines 528-566: what the frame does with the response r.
Decide(p, r, a) ==
    IF p = "featherless" /\ r.status = 400
    THEN IF ColdCheck(r.body) = "cold" /\ ColdCanRetry(a) THEN "sleep"
         ELSE IF ColdCheck(r.body) = "raised" THEN "threw"
         ELSE "done"
    ELSE IF p = "huggingface" /\ r.status = 502 /\ CanRetry(a) THEN "sleep"
    ELSE IF Retryable(r.status) /\ CanRetry(a) THEN "sleep"
    ELSE "done"

\* Lines 522-566 of the call c.
CallReceive(c, r) ==
    /\ calls[c].pc = "fetch"
    /\ rateLimits' = parseRateLimitHeaders(rateLimits, r.rate, calls[c].provider)
    /\ Landing(calls[c].provider, r)
    /\ calls' = [calls EXCEPT ![c].pc = Decide(calls[c].provider, r, calls[c].attempt)]
    /\ UNCHANGED <<provider, pc, attempt, requests, response, returned, delay, log>>

\* sleep(delay) of the call c resolves; its next request is issued.
CallWake(c) ==
    /\ calls[c].pc = "sleep"
    /\ calls' = [calls EXCEPT ![c] = Frame(calls[c].provider, "fetch", calls[c].attempt + 1)]
    /\ UNCHANGED <<retryVars, landed>>

\* The responses the concurrent calls receive: returned or retried, with
\* both rate-limit headers or with one.
ConcurrentResponses ==
    { Resp(sb[1], sb[2], Absent, rate) :
        sb \in {<<200, BodyOk>>, <<400, BodyCold>>, <<429, BodyBadRequest>>},
        rate \in {OnlyLimit, RateA, RateB} }

\* The providers the concurrent calls go to.
CalledProviders == {"openrouter", "featherless"}

\* Handlers have called fetchWithRetry for some providers at the same time.
ConcurrentInit ==
    /\ calls \in [1 .. MaxCalls -> {Frame(p, "fetch", 0) : p \in CalledProviders}]
    /\ landed = <<>>

ConcurrentSpecInit ==
    RetryIdle /\ StreamIdle /\ HandlerIdle /\ FailoverIdle /\ RouteIdle /\ ConcurrentInit /\ CacheIdle /\ SdkIdle /\ UiIdle

ConcurrentNext ==
    \/ \E c \in 1 .. MaxCalls, r \in ConcurrentResponses :
           CallReceive(c, r) /\ UNCHANGED <<streamVars, handlerVars, failVars, routeVars, cacheVars, sdkVars, uiVars>>
    \/ \E c \in 1 .. MaxCalls :
           CallWake(c) /\ UNCHANGED <<streamVars, handlerVars, failVars, routeVars, cacheVars, sdkVars, uiVars>>

ConcurrentSpec == ConcurrentSpecInit /\ [][ConcurrentNext]_vars

\* The triple one response writes.
TripleOf(rate) ==
    [known |-> TRUE, limit |-> rate.limit[1], remaining |-> rate.remaining[1],
     reset |-> IF rate.reset # Absent
               THEN [base |-> "epoch", ms |-> rate.reset[1] * 1000]
               ELSE [base |-> "now", ms |-> 60000]]

\* C25: under every interleaving of concurrent calls, the snapshot of each
\* provider is the complete triple of one single response, the one for that
\* provider whose write landed last; calls for other providers do not affect
\* it.
C25_WholeTripleOfLastWrite ==
    \A p \in Providers :
        IF CompleteFor(p) = {}
        THEN rateLimits[p] = Unknown
        ELSE rateLimits[p] = TripleOf(landed[MostRecent(p)].rate)

\* Two calls for the same provider have each received one response with both
\* headers, with different values; the snapshot is the second one's.
C25_Witness ==
    /\ Len(landed) = 2
    /\ landed[1].provider = landed[2].provider
    /\ Complete(landed[1].rate) /\ Complete(landed[2].rate)
    /\ landed[1].rate # landed[2].rate
    /\ \A c \in 1 .. MaxCalls : calls[c].attempt = 0 /\ calls[c].pc # "fetch"
    /\ rateLimits[landed[1].provider] = TripleOf(landed[2].rate)

----------------------------------------------------------------------------
\* C26: within one logical call the attempts are strictly sequential: a
\* request is in flight exactly while the call waits for its response, so at
\* most one is; and the next request is issued only by the wake-up from the
\* sleep that followed the response to the previous one.
C26_OneAttemptInFlight ==
    /\ [](requests - Len(log) = (IF pc = "fetch" THEN 1 ELSE 0))
    /\ [][ requests' # requests =>
              /\ pc = "sleep" /\ pc' = "fetch"
              /\ Len(log) = requests
              /\ requests' = requests + 1
              /\ attempt' = attempt + 1 ]_vars

\* The third attempt is in flight, after two responses and two sleeps.
C26_Witness ==
    /\ pc = "fetch" /\ attempt = 2
    /\ requests = 3 /\ Len(log) = 2

----------------------------------------------------------------------------
(* The chat handler together with its call of fetchWithRetry (part_001,     *)
(* lines 613-685): the reply to a request that is not streamed.             *)

ChatResponses ==
    { Resp(200, BodyOk, Absent, NoRateHeaders),
      Resp(400, BodyCold, Absent, NoRateHeaders),
      Resp(400, BodyBadRequest, Absent, NoRateHeaders),
      Resp(400, BodyNull, Absent, NoRateHeaders),
      Resp(401, BodyBadRequest, Absent, NoRateHeaders),
      Resp(429, BodyBadRequest, Absent, NoRateHeaders),
      Resp(502, BodyCold, Absent, NoRateHeaders) }

\* Lines 634-676 once fetchWithRetry has resolved.
ChatRespond == pc = "done" /\ Respond

\* Line 522: fetch() rejects; fetchWithRetry has no catch and rejects too.
ChatFetchThrows ==
    /\ hpc = "respond" /\ pc = "fetch"
    /\ pc' = "threw"
    /\ UNCHANGED <<provider, attempt, requests, response, returned, delay, log, rateLimits>>

\* Lines 677-683: fetchWithRetry rejected; the catch answers 500 with the
\* error's message and no hint.
ChatCatch ==
    /\ pc = "threw" /\ hpc = "respond"
    /\ reply' = Reply(500, "error", "fetch failed")
    /\ hpc' = "replied"
    /\ UNCHANGED <<streaming, pushed, client, streamVars>>

\* The handler has called fetchWithRetry for a request without `stream`.
ChatInit ==
    /\ streaming = FALSE /\ hpc = "respond" /\ reply = NoReply
    /\ pushed = <<>> /\ client = "connected"
    /\ parser = "none" /\ input = <<>> /\ buffer = <<>> /\ yielded = <<>>
    /\ spc = "end" /\ payload = <<>> /\ reader = "none" /\ hasBody = TRUE
    /\ thrown = "none"

ChatSpecInit == RetryInit /\ ChatInit /\ FailoverIdle /\ ExtraIdle

ChatNext ==
    \/ \E r \in ChatResponses : ColdRetry(r) /\ UNCHANGED <<streamVars, handlerVars, failVars, extraVars>>
    \/ \E r \in ChatResponses : ColdReturn(r) /\ UNCHANGED <<streamVars, handlerVars, failVars, extraVars>>
    \/ \E r \in ChatResponses : HuggingFaceRetry(r) /\ UNCHANGED <<streamVars, handlerVars, failVars, extraVars>>
    \/ \E r \in ChatResponses : GenericRetry(r) /\ UNCHANGED <<streamVars, handlerVars, failVars, extraVars>>
    \/ \E r \in ChatResponses : FinalReturn(r) /\ UNCHANGED <<streamVars, handlerVars, failVars, extraVars>>
    \/ Wake /\ UNCHANGED <<streamVars, handlerVars, failVars, extraVars>>
    \/ ChatFetchThrows /\ UNCHANGED <<streamVars, handlerVars, failVars, extraVars>>
    \/ ChatRespond /\ UNCHANGED <<retryVars, failVars, extraVars>>
    \/ ChatCatch /\ UNCHANGED <<retryVars, failVars, extraVars>>

ChatSpec == ChatSpecInit /\ [][ChatNext]_vars

\* fetchWithRetry gave up on a cold start: every response of the call was a
\* featherless 400 naming a cold start, and no retry was left for the last.
ExhaustedColdStart ==
    /\ provider = "featherless"
    /\ Len(log) > 0
    /\ \A i \in 1 .. Len(log) : log[i].status = 400 /\ ColdCheck(log[i].body) = "cold"
    /\ ~ColdCanRetry(attempt)

\* C29: the error reply of the chat endpoint carries the cold-start hint
\* exactly when the failure is an exhausted cold start; any other error, a
\* featherless 400 without the cold-start marker included, carries none.
C29_HintIffColdStart ==
    hpc = "replied" /\ reply.kind = "error" =>
        (reply.hint # "none" <=> ExhaustedColdStart)

\* The hint is there on every error reply for a featherless 400, and on no
\* other reply.
C29_HintOnFeatherless400 ==
    hpc = "replied" /\ reply.kind = "error" =>
        (reply.hint # "none" <=> provider = "featherless" /\ reply.status = 400)

----------------------------------------------------------------------------
(* The model-list cache (part_001, lines 503-504 and 690-727). The handler  *)
(* runs in two steps, up to its await of fetchWithRetry and after it, and   *)
(* several requests may be between the two at once. fetchWithRetry appears  *)
(* by its outcome: a response that is OK, one that is not, or a rejection.  *)

\* The clock of the model makes at most MaxTicks steps.
MaxTicks == 3

\* Largest number of models requests.
MaxGets == 3

\* Line 504.
MODEL_CACHE_TTL == 5 * 60 * 1000

\* The clock advances by half the lifetime of an entry.
ClockStep == MODEL_CACHE_TTL \div 2

FreshInclusive(cached, t) == cached.present /\ t - cached.fetchedAt <= MODEL_CACHE_TTL

\* Line 701: cached && Date.now() - cached.fetchedAt < MODEL_CACHE_TTL.
Fresh(cached, t) == cached.present /\ t - cached.fetchedAt < MODEL_CACHE_TTL

\* The providers whose models are asked for.
ListedProviders == {"openrouter"}

\* The JSON bodies of the upstream's model lists: the list under `data`,
\* under `models`, or under neither.
ModelBodies ==
    { [data |-> "listA", models |-> "none"], [data |-> "none", models |-> "listB"],
      [data |-> "none", models |-> "none"] }

\* Line 716: data.data || data.models || [].
ModelsOf(body) ==
    IF body.data # "none" THEN body.data
    ELSE IF body.models # "none" THEN body.models
    ELSE "[]"

Get(p, at, seen, state, status, cached, data) ==
    [provider |-> p, arrivedAt |-> at, seen |-> seen, pc |-> state,
     status |-> status, cached |-> cached, data |-> data]

\* Lines 690-709: a request arrives; it is answered from the cache when the
\* entry is fresh and calls fetchWithRetry otherwise.
Arrive(p) ==
    /\ Len(gets) < MaxGets
    /\ gets' = Append(gets,
                 IF Fresh(modelCache[p], now)
                 THEN Get(p, now, Len(fetched), "answered", 200, TRUE, modelCache[p].data)
                 ELSE Get(p, now, Len(fetched), "fetching", 0, FALSE, "none"))
    /\ UNCHANGED <<modelCache, now, fetched>>

\* Lines 715-721: the response is OK; its list is stored with the time of
\* this moment and sent with cached: false.
FetchOk(i, body) ==
    /\ gets[i].pc = "fetching"
    /\ modelCache' = [modelCache EXCEPT ![gets[i].provider] =
                        [present |-> TRUE, data |-> ModelsOf(body), fetchedAt |-> now]]
    /\ gets' = [gets EXCEPT ![i] = [@ EXCEPT !.pc = "answered", !.status = 200,
                                             !.data = ModelsOf(body)]]
    /\ fetched' = Append(fetched, [provider |-> gets[i].provider, at |-> now,
                                   data |-> ModelsOf(body)])
    /\ now' = now

FetchNotOkStored(i, status) ==
    /\ gets[i].pc = "fetching"
    /\ gets' = [gets EXCEPT ![i] = [@ EXCEPT !.pc = "answered", !.status = status]]
    /\ modelCache' = [modelCache EXCEPT ![gets[i].provider] =
                        [present |-> TRUE, data |-> "[]", fetchedAt |-> now]]
    /\ UNCHANGED <<now, fetched>>

\* Lines 710-713: the response is not OK; its status is passed on.
FetchNotOk(i, status) ==
    /\ gets[i].pc = "fetching"
    /\ gets' = [gets EXCEPT ![i] = [@ EXCEPT !.pc = "answered", !.status = status]]
    /\ UNCHANGED <<modelCache, now, fetched>>

\* Lines 722-725: fetchWithRetry or response.json() rejected.
FetchFails(i) ==
    /\ gets[i].pc = "fetching"
    /\ gets' = [gets EXCEPT ![i] = [@ EXCEPT !.pc = "answered", !.status = 500]]
    /\ UNCHANGED <<modelCache, now, fetched>>

\* Time passes; the clock starts with the first request.
Tick ==
    /\ gets # <<>>
    /\ now < MaxTicks * ClockStep
    /\ now' = now + ClockStep
    /\ UNCHANGED <<modelCache, gets, fetched>>

CacheSpecInit == RetryIdle /\ StreamIdle /\ HandlerIdle /\ FailoverIdle /\ ExtraIdle

CacheNext ==
    \/ \E p \in ListedProviders :
           Arrive(p) /\ UNCHANGED <<retryVars, streamVars, handlerVars, failVars, routeVars, rateVars, sdkVars, uiVars>>
    \/ \E i \in 1 .. Len(gets), body \in ModelBodies :
           FetchOk(i, body) /\ UNCHANGED <<retryVars, streamVars, handlerVars, failVars, routeVars, rateVars, sdkVars, uiVars>>
    \/ \E i \in 1 .. Len(gets), status \in {401} :
           FetchNotOk(i, status) /\ UNCHANGED <<retryVars, streamVars, handlerVars, failVars, routeVars, rateVars, sdkVars, uiVars>>
    \/ \E i \in 1 .. Len(gets) :
           FetchFails(i) /\ UNCHANGED <<retryVars, streamVars, handlerVars, failVars, routeVars, rateVars, sdkVars, uiVars>>
    \/ Tick /\ UNCHANGED <<retryVars, streamVars, handlerVars, failVars, routeVars, rateVars, sdkVars, uiVars>>

CacheSpec == CacheSpecInit /\ [][CacheNext]_vars

\* The lists stored for the provider of request j before it arrived.
FetchedBefore(j) ==
    {k \in 1 .. gets[j].seen : fetched[k].provider = gets[j].provider}

\* What C30 asks of request j with regard to the stored list k.
ServedWithin(j, k) ==
    IF gets[j].arrivedAt < fetched[k].at + MODEL_CACHE_TTL
    THEN gets[j].cached /\ gets[j].status = 200 /\ gets[j].data = fetched[k].data
    ELSE ~gets[j].cached

----------------------------------------------------------------------------
(* fetchWithRetry when every request is answered and every sleep ends: the  *)
(* event loop delivers each response and fires each timer.                  *)

FairSpec == Init /\ [][Next]_vars /\ WF_vars(Next)

\* C35: every logical call of fetchWithRetry ends, whatever the provider
\* answers, after at most 6 requests for featherless and at most 4 for any
\* other provider.
C35_Terminates ==
    /\ [](requests <= Budget(provider))
    /\ <>(pc \in {"done", "threw"})

\* A featherless call has ended with its sixth request, after generic retries
\* and cold-start retries both.
C35_Witness ==
    /\ provider = "featherless" /\ pc = "done" /\ requests = 6
    /\ \E i \in 1 .. Len(log) : log[i].status # 400
    /\ \E i \in 1 .. Len(log) : log[i].status = 400

\* The response i of the call was followed by another request, or by the
\* sleep before one.
Retried(i) == i < requests \/ (i = Len(log) /\ pc = "sleep")

\* How many retries the response e may follow and still be retried.
RetryLimit(p, e) ==
    IF p = "featherless" /\ e.status = 400
    THEN (IF ColdCheck(e.body) = "cold" THEN 5 ELSE 0)
    ELSE IF e.status \in RETRY_STATUS_CODES THEN 3
    ELSE 0

\* C36: one counter counts the retries of both kinds: the response that
\* follows i - 1 retries is retried exactly when i - 1 is below 3 for a
\* generic-retryable response or a huggingface 502, and below 5 for a
\* featherless cold start; the counter is the number of retries made.
C36_SingleCounter ==
    /\ attempt = requests - 1
    /\ \A i \in 1 .. Len(log) : Retried(i) <=> i - 1 < RetryLimit(provider, log[i])

\* A cold start arrived after three generic retries and was retried.
C36_Witness ==
    /\ provider = "featherless" /\ Len(log) = 4 /\ pc = "sleep"
    /\ \A i \in 1 .. 3 : log[i].status = 503
    /\ log[4].status = 400

----------------------------------------------------------------------------
\* C34: the _provider and _model tags of a successful failover answer name
\* the provider that received the request and the model that was sent in the
\* body of that request, whatever the caller put in the request body.
C34_TagsNameWhatWasSent ==
    fpc = "finished" /\ result.status = 200 =>
        /\ result.provider = dispatched[Len(dispatched)].entry.provider
        /\ result.model = dispatched[Len(dispatched)].sent

\* What holds of the tags: they name the chain entry that was dispatched.
C34_TagsNameTheEntry ==
    fpc = "finished" /\ result.status = 200 =>
        /\ result.provider = dispatched[Len(dispatched)].entry.provider
        /\ result.model = dispatched[Len(dispatched)].entry.model

----------------------------------------------------------------------------
\* C37: when fetch() itself throws on an attempt of fetchWithRetry, that
\* attempt records no rate-limit headers, the call rejects without a further
\* attempt, and the failover handler goes on with the next entry of the chain
\* instead of answering.
C37_TransportFailure ==
    [][ /\ (pc' = "threw" /\ pc # "threw") =>
              rateLimits' = rateLimits /\ requests' = requests /\ log' = log
        /\ pc = "threw" =>
              \/ requests' = requests /\ pc' = "threw"
              \/ Len(dispatched') = Len(dispatched) + 1
        /\ (pc = "threw" /\ fpc = "dispatch" /\ fpc' # "dispatch") =>
              fpc' = "entry" /\ idx' = idx + 1 /\ result' = result ]_vars

\* The request of a retry failed in transport, after the response before it
\* had its headers recorded, and the handler has moved on to the second entry.
C37_Witness ==
    /\ pc = "threw" /\ attempt >= 1
    /\ rateLimits[provider].known
    /\ fpc = "entry" /\ idx = 2
    /\ dispatched[1].outcome = "failed"

----------------------------------------------------------------------------
\* C38: the cache entry of a provider is written only when a models request
\* for it gets an OK response, with the list of that response; a response
\* that is not OK and a thrown error leave every entry as it was; and a reply
\* from the cache always comes from an entry younger than five minutes.
C38_WrittenOnlyOnSuccess ==
    /\ [][ \A p \in Providers :
             modelCache'[p] # modelCache[p] =>
                 \E i \in 1 .. Len(gets) :
                     /\ gets[i].provider = p /\ gets[i].pc = "fetching"
                     /\ gets'[i].pc = "answered" /\ gets'[i].status = 200
                     /\ ~gets'[i].cached
                     /\ modelCache'[p].data = gets'[i].data
                     /\ modelCache'[p].fetchedAt = now ]_vars
    /\ [](\A j \in 1 .. Len(gets) :
             gets[j].cached =>
                 \E k \in FetchedBefore(j) :
                     /\ gets[j].data = fetched[k].data
                     /\ gets[j].arrivedAt - fetched[k].at < MODEL_CACHE_TTL)

\* With a list in the cache, a later fetch failed and the entry was left as
\* it was; the next request after the five minutes fetches again.
C38_Witness ==
    /\ Len(gets) = 3 /\ Len(fetched) = 1
    /\ gets[2].pc = "answered" /\ gets[2].status # 200
    /\ gets[2].arrivedAt >= fetched[1].at + MODEL_CACHE_TTL
    /\ modelCache[gets[1].provider].present
    /\ modelCache[gets[1].provider].fetchedAt = fetched[1].at
    /\ gets[3].pc = "fetching"

----------------------------------------------------------------------------
(* The SDK: AIClient (src/unnamed/part_005) and BaseProvider               *)
(* (src/frontend/src/lib/api.ts, lines 439-511) with the providers' chat   *)
(* methods (src/src/providers/openrouter.ts, featherless.ts, part_004).    *)

SdkNames == {SdkProviders[i] : i \in 1 .. Len(SdkProviders)}

\* An apiKey, or the value of an environment variable: <<>> for undefined,
\* <<"">> for the empty string, <<"sk-1">> for a key.
ApiKeys == {<<>>, <<"">>, <<"sk-1">>}

\* JavaScript truthiness of such a value.
Truthy(v) == v # <<>> /\ v[1] # ""

\* An AIClientConfig: per provider no entry, or a ProviderConfig.
Configs == [SdkNames -> {<<>>} \cup {<<[apiKey |-> k]>> : k \in ApiKeys}]

EnvNames == {"OPENROUTER_API_KEY", "HUGGINGFACE_API_KEY", "HF_TOKEN",
             "FEATHERLESS_API_KEY", "VENICE_API_KEY"}

Envs == [EnvNames -> ApiKeys]

KeyUndefined(cfg) == cfg.apiKey = <<>>

\* api.ts lines 443-448, BaseProvider's constructor: `if (!config.apiKey)
\* throw new Error('API key is required')`.
KeyMissing(cfg) == ~Truthy(cfg.apiKey)

\* The provider instance a subclass constructor leaves (openrouter.ts 78-81).
NewProvider(name, cfg) == [name |-> name, config |-> cfg]

\* part_005 lines 57-70, new AIClient(config): the four `if (config.x)
\* this.providers.set('x', new XProvider(config.x))` in their order, from the
\* i-th on, with `made` the entries set so far. A constructor that throws
\* ends the construction.
RECURSIVE Construct(_, _, _)
Construct(cfg, i, made) ==
    IF i > Len(SdkProviders) THEN [threw |-> FALSE, providers |-> made]
    ELSE LET p == SdkProviders[i] IN
         IF cfg[p] = <<>> THEN Construct(cfg, i + 1, made)
         ELSE IF KeyMissing(cfg[p][1]) THEN [threw |-> TRUE, providers |-> made]
         ELSE Construct(cfg, i + 1, Append(made, NewProvider(p, cfg[p][1])))

\* `a || b` of two such values.
OrElse(a, b) == IF Truthy(a) THEN a ELSE b

\* part_005 lines 153-177, the key fromEnv() reads for a provider.
fromEnvKey(e, p) ==
    CASE p = "openrouter"  -> e["OPENROUTER_API_KEY"]
      [] p = "huggingface" -> OrElse(e["HUGGINGFACE_API_KEY"], e["HF_TOKEN"])
      [] p = "featherless" -> e["FEATHERLESS_API_KEY"]
      [] p = "venice"      -> e["VENICE_API_KEY"]

\* part_005 lines 153-177, the config fromEnv() builds: `if (key)
\* config.x = { apiKey: key }`.
EnvConfig(e) ==
    [p \in SdkNames |-> IF Truthy(fromEnvKey(e, p)) THEN <<[apiKey |-> fromEnvKey(e, p)]>> ELSE <<>>]

\* new AIClient(cfg), by the program or by fromEnv().
Build(cfg) ==
    /\ config' = cfg
    /\ providers' = Construct(cfg, 1, <<>>).providers
    /\ sdk' = IF Construct(cfg, 1, <<>>).threw THEN "threw" ELSE "constructed"
    /\ call' = call

NewAIClient(cfg) ==
    /\ sdk = "none"
    /\ Build(cfg)
    /\ processEnv' = processEnv

FromEnv(e) ==
    /\ sdk = "none"
    /\ processEnv' = <<e>>
    /\ Build(EnvConfig(e))

\* part_005 lines 78-86: the message of getProvider's error.
NotConfigured(p) ==
    [name |-> "Error",
     message |-> <<"Provider \"", p, "\" is not configured",
                   ". Please provide API credentials for this provider.">>,
     provider |-> "none", statusCode |-> <<>>, response |-> <<>>]

MapEntries(p) == {i \in 1 .. Len(providers) : providers[i].name = p}

\* part_005 lines 93-95: this.providers.has(provider).
hasProvider(p) == MapEntries(p) # {}

\* part_005 lines 101-103: Array.from(this.providers.keys()).
getConfiguredProviders == [i \in 1 .. Len(providers) |-> providers[i].name]

getProviderUnchecked(p) ==
    [threw |-> FALSE,
     instance |-> IF MapEntries(p) = {} THEN <<>> ELSE <<providers[CHOOSE i \in MapEntries(p) : TRUE]>>,
     error |-> NoError]

\* part_005 lines 78-86: this.providers.get(provider), and the throw when
\* there is none.
getProvider(p) ==
    IF MapEntries(p) = {}
    THEN [threw |-> TRUE, instance |-> <<>>, error |-> NotConfigured(p)]
    ELSE [threw |-> FALSE, instance |-> <<providers[CHOOSE i \in MapEntries(p) : TRUE]>>,
          error |-> NoError]

\* api.ts lines 465-480, createError of the provider called `name`.
createError(name, message, statusCode, body) ==
    [name |-> "Error", message |-> message, provider |-> name,
     statusCode |-> statusCode, response |-> body]

\* An error the runtime throws: the TypeError of a body read twice or of a
\* failed fetch, the SyntaxError of JSON.parse.
RuntimeError(name) ==
    [name |-> name, message |-> <<name>>, provider |-> "none",
     statusCode |-> <<>>, response |-> <<>>]

\* A Response: `body` is <<>> for a null body, or <<[json, text]>> with
\* `json` telling whether the text parses as JSON.
SdkResponse(ok, status, statusText, body) ==
    [ok |-> ok, status |-> status, statusText |-> statusText, body |-> body,
     bodyUsed |-> FALSE]

SdkResponses ==
    {SdkResponse(TRUE, 200, "OK", <<[json |-> TRUE, text |-> "{\"choices\":[]}"]>>),
     SdkResponse(TRUE, 200, "OK", <<[json |-> FALSE, text |-> "<html>"]>>),
     SdkResponse(FALSE, 401, "Unauthorized",
                 <<[json |-> TRUE, text |-> "{\"error\":\"Invalid API key\"}"]>>),
     SdkResponse(FALSE, 502, "Bad Gateway", <<[json |-> FALSE, text |-> "<html>"]>>),
     SdkResponse(FALSE, 500, "Internal Server Error", <<>>)}

\* The Fetch standard's body mixin: a body that is not null and was read is
\* unusable, and json() and text() of an unusable body reject with a
\* TypeError; otherwise they read the body whole, and json() then parses.
BodyUnusable(r) == r.body # <<>> /\ r.bodyUsed

BodyRead(r) == [r EXCEPT !.bodyUsed = r.body # <<>>]

ResponseJson(r) ==
    IF BodyUnusable(r) THEN [error |-> "TypeError", value |-> <<>>, response |-> r]
    ELSE IF r.body # <<>> /\ r.body[1].json
         THEN [error |-> "none", value |-> <<r.body[1].text>>, response |-> BodyRead(r)]
         ELSE [error |-> "SyntaxError", value |-> <<>>, response |-> BodyRead(r)]

ResponseText(r) ==
    IF BodyUnusable(r) THEN [error |-> "TypeError", value |-> <<>>, response |-> r]
    ELSE [error |-> "none",
          value |-> <<IF r.body = <<>> THEN "" ELSE r.body[1].text>>,
          response |-> BodyRead(r)]

\* api.ts line 504: `HTTP ${response.status}: ${response.statusText}`.
HttpMessage(r) == <<"HTTP ", ToString(r.status), ": ", r.statusText>>

Rejected(e) == [outcome |-> "rejected", value |-> <<>>, error |-> e]

Resolved(v) == [outcome |-> "resolved", value |-> v, error |-> NoError]

\* api.ts lines 496-508 (and openrouter.ts 158-170 for a stream), the
\* response is not OK: `try { errorBody = await response.json() } catch
\* { errorBody = await response.text() }`, then the throw of createError.
NotOk(name, r) ==
    LET j == ResponseJson(r) IN
    IF j.error = "none"
    THEN Rejected(createError(name, HttpMessage(r), <<r.status>>, j.value))
    ELSE LET t == ResponseText(j.response) IN
         IF t.error = "none"
         THEN Rejected(createError(name, HttpMessage(r), <<r.status>>, t.value))
         ELSE Rejected(RuntimeError(t.error))

\* api.ts lines 484-511, fetchJson once fetch() has resolved with r.
fetchJson(name, r) ==
    IF ~r.ok THEN NotOk(name, r)
    ELSE LET j == ResponseJson(r) IN
         IF j.error = "none" THEN Resolved(j.value) ELSE Rejected(RuntimeError(j.error))

\* openrouter.ts lines 149-176, chatStream once fetch() has resolved with r:
\* the same handling of a response that is not OK, then the body is read.
streamOpen(name, r) ==
    IF ~r.ok THEN NotOk(name, r)
    ELSE IF r.body = <<>>
         THEN Rejected(createError(name, <<"No response body for streaming">>, <<>>, <<>>))
         ELSE Resolved(<<"chunks">>)

CanCall == sdk = "constructed" /\ call.pc # "fetching"

Answered(op, p, outcome, value, error) ==
    [op |-> op, provider |-> p, pc |-> "done", requests |-> 0,
     outcome |-> outcome, value |-> value, error |-> error, response |-> <<>>]

\* client.hasProvider(p)
HasProvider(p) ==
    /\ CanCall
    /\ call' = Answered("hasProvider", p, "returned", <<hasProvider(p)>>, NoError)
    /\ UNCHANGED <<processEnv, config, sdk, providers>>

\* client.getConfiguredProviders()
GetConfiguredProviders ==
    /\ CanCall
    /\ call' = Answered("getConfiguredProviders", "none", "returned",
                        getConfiguredProviders, NoError)
    /\ UNCHANGED <<processEnv, config, sdk, providers>>

\* client.getProvider(p)
GetProvider(p) ==
    /\ CanCall
    /\ call' = IF getProvider(p).threw
               THEN Answered("getProvider", p, "threw", <<>>, getProvider(p).error)
               ELSE Answered("getProvider", p, "returned", getProvider(p).instance, NoError)
    /\ UNCHANGED <<processEnv, config, sdk, providers>>

\* part_005 lines 110-113 and 133-140: client.chat(request), and
\* client.quickChat(...), which calls it. An async function rejects with what
\* getProvider throws; the provider's chat issues one fetch() through
\* fetchJson (openrouter.ts 83-109; part_004 139-246 for either endpoint
\* of Hugging Face).
Chat(op, p) ==
    /\ CanCall
    /\ call' = IF getProvider(p).threw
               THEN Answered(op, p, "rejected", <<>>, getProvider(p).error)
               ELSE [Answered(op, p, "none", <<>>, NoError) EXCEPT
                        !.pc = "fetching", !.requests = 1]
    /\ UNCHANGED <<processEnv, config, sdk, providers>>

\* part_005 lines 120-123: client.chatStream(request) is not async: what
\* getProvider throws, it throws; otherwise it returns the provider's
\* generator, which has not started.
ChatStream(p) ==
    /\ CanCall
    /\ call' = IF getProvider(p).threw
               THEN Answered("chatStream", p, "threw", <<>>, getProvider(p).error)
               ELSE [Answered("chatStream", p, "returned", <<"iterable">>, NoError) EXCEPT
                        !.pc = "iterable"]
    /\ UNCHANGED <<processEnv, config, sdk, providers>>

\* The first next() of that generator runs it up to its fetch()
\* (openrouter.ts 133-156).
IterateStream ==
    /\ sdk = "constructed" /\ call.pc = "iterable"
    /\ call' = [call EXCEPT !.pc = "fetching", !.requests = @ + 1,
                            !.outcome = "none", !.value = <<>>]
    /\ UNCHANGED <<processEnv, config, sdk, providers>>

\* fetch() resolves with r.
FetchResolves(r) ==
    /\ call.pc = "fetching"
    /\ LET after == IF call.op = "chatStream" THEN streamOpen(call.provider, r)
                    ELSE fetchJson(call.provider, r) IN
       call' = [call EXCEPT !.pc = "done", !.response = <<r>>,
                            !.outcome = after.outcome, !.value = after.value,
                            !.error = after.error]
    /\ UNCHANGED <<processEnv, config, sdk, providers>>

\* fetch() rejects: nothing in fetchJson or chat catches it.
FetchRejects ==
    /\ call.pc = "fetching"
    /\ call' = [call EXCEPT !.pc = "done", !.outcome = "rejected",
                            !.error = RuntimeError("TypeError")]
    /\ UNCHANGED <<processEnv, config, sdk, providers>>

nonSdkVars == <<retryVars, streamVars, handlerVars, failVars,
                routeVars, rateVars, cacheVars, uiVars>>

SdkNext ==
    \/ \E cfg \in Configs : NewAIClient(cfg) /\ UNCHANGED nonSdkVars
    \/ \E e \in Envs : FromEnv(e) /\ UNCHANGED nonSdkVars
    \/ \E p \in SdkNames : HasProvider(p) /\ UNCHANGED nonSdkVars
    \/ GetConfiguredProviders /\ UNCHANGED nonSdkVars
    \/ \E p \in SdkNames : GetProvider(p) /\ UNCHANGED nonSdkVars
    \/ \E op \in {"chat", "quickChat"}, p \in SdkNames : Chat(op, p) /\ UNCHANGED nonSdkVars
    \/ \E p \in SdkNames : ChatStream(p) /\ UNCHANGED nonSdkVars
    \/ IterateStream /\ UNCHANGED nonSdkVars
    \/ \E r \in SdkResponses : FetchResolves(r) /\ UNCHANGED nonSdkVars
    \/ FetchRejects /\ UNCHANGED nonSdkVars

SdkSpecInit ==
    RetryIdle /\ StreamIdle /\ HandlerIdle /\ FailoverIdle
    /\ RouteIdle /\ RateIdle /\ CacheIdle /\ SdkIdle /\ UiIdle

SdkSpec == SdkSpecInit /\ [][SdkNext]_vars


\* C31: on every AIClient and for every provider name p, hasProvider(p),
\* membership of p in getConfiguredProviders() and getProvider(p) returning
\* instead of throwing 'Provider "p" is not configured' go together; and
\* chat, chatStream and quickChat for a provider that is not configured fail
\* with that error and issue no HTTP request.
C31_ConfiguredConsistently ==
    sdk = "constructed" =>
        \A p \in SdkNames :
            /\ hasProvider(p) <=>
                   \E i \in 1 .. Len(getConfiguredProviders) : getConfiguredProviders[i] = p
            /\ (call.op = "hasProvider" /\ call.provider = p) =>
                   call.value = <<hasProvider(p)>>
            /\ (call.op = "getProvider" /\ call.provider = p) =>
                   /\ hasProvider(p) <=> call.outcome = "returned"
                   /\ ~hasProvider(p) =>
                          /\ call.outcome = "threw"
                          /\ SubSeq(call.error.message, 1, 3)
                                 = <<"Provider \"", p, "\" is not configured">>
            /\ (call.op \in {"chat", "chatStream", "quickChat"}
                    /\ call.provider = p /\ ~hasProvider(p)) =>
                   /\ call.pc = "done" /\ call.requests = 0
                   /\ call.outcome = IF call.op = "chatStream" THEN "threw" ELSE "rejected"
                   /\ SubSeq(call.error.message, 1, 3)
                          = <<"Provider \"", p, "\" is not configured">>

\* A client with openrouter only was asked to stream from venice.
C31_Witness ==
    /\ sdk = "constructed"
    /\ getConfiguredProviders = <<"openrouter">>
    /\ call.op = "chatStream" /\ call.provider = "venice"
    /\ call.outcome = "threw" /\ call.requests = 0

\* C32: no provider instance has an empty API key: a constructor handed an
\* empty (or undefined) apiKey throws, and so does the AIClient constructor
\* that called it; AIClient.fromEnv() configures exactly the providers whose
\* variable is set to a non-empty value, huggingface from
\* HUGGINGFACE_API_KEY or else HF_TOKEN.
C32_NoEmptyKey ==
    /\ \A i \in 1 .. Len(providers) :
           providers[i].config.apiKey \notin {<<>>, <<"">>}
    /\ sdk # "none" =>
           (sdk = "threw" <=>
                \E p \in SdkNames :
                    config[p] # <<>> /\ config[p][1].apiKey \in {<<>>, <<"">>})
    /\ (sdk # "none" /\ processEnv # <<>>) =>
           LET e == processEnv[1]
               set(v) == e[v] \notin {<<>>, <<"">>}
           IN  /\ sdk = "constructed"
               /\ hasProvider("openrouter") <=> set("OPENROUTER_API_KEY")
               /\ hasProvider("huggingface") <=>
                      set("HUGGINGFACE_API_KEY") \/ set("HF_TOKEN")
               /\ hasProvider("featherless") <=> set("FEATHERLESS_API_KEY")
               /\ hasProvider("venice") <=> set("VENICE_API_KEY")

\* new AIClient({ openrouter: { apiKey: 'sk-1' }, huggingface: { apiKey: '' } })
\* threw when it came to huggingface.
C32_Witness ==
    /\ sdk = "threw"
    /\ config["openrouter"] = <<[apiKey |-> <<"sk-1">>]>>
    /\ config["huggingface"] = <<[apiKey |-> <<"">>]>>
    /\ Len(providers) = 1

\* fromEnv() with HUGGINGFACE_API_KEY empty and HF_TOKEN set.
C32_FromEnvWitness ==
    /\ sdk = "constructed" /\ processEnv # <<>>
    /\ processEnv[1]["HUGGINGFACE_API_KEY"] = <<"">>
    /\ processEnv[1]["HF_TOKEN"] = <<"sk-1">>
    /\ getConfiguredProviders = <<"huggingface">>

NonOkChat ==
    /\ call.op \in {"chat", "quickChat"} /\ call.pc = "done"
    /\ call.response # <<>> /\ ~call.response[1].ok

\* C33: a chat call of the SDK whose response is not OK rejects with the
\* error 'HTTP <status>: <statusText>' carrying the provider's name, the
\* status code and the response body, after exactly one HTTP request, whether
\* the body of the error response is JSON or not.
C33_NonOkRejectsWithHttpError ==
    NonOkChat =>
        LET r == call.response[1] IN
        /\ call.outcome = "rejected" /\ call.requests = 1
        /\ call.error.name = "Error"
        /\ call.error.message = <<"HTTP ", ToString(r.status), ": ", r.statusText>>
        /\ call.error.provider = call.provider
        /\ call.error.statusCode = <<r.status>>
        /\ call.error.response = <<IF r.body = <<>> THEN "" ELSE r.body[1].text>>

\* What holds instead: the call rejects after one request in every case, and
\* with that error when the body is JSON or there is no body; a body that is
\* not JSON was read by json() and makes text() reject with a TypeError.
C33_HttpErrorUnlessBodyRead ==
    NonOkChat =>
        LET r == call.response[1] IN
        /\ call.outcome = "rejected" /\ call.requests = 1
        /\ IF r.body # <<>> /\ ~r.body[1].json
           THEN call.error.name = "TypeError" /\ call.error.provider = "none"
           ELSE /\ call.error.name = "Error"
                /\ call.error.message = <<"HTTP ", ToString(r.status), ": ", r.statusText>>
                /\ call.error.provider = call.provider
                /\ call.error.statusCode = <<r.status>>

----------------------------------------------------------------------------
(* The chat page with sessions (src/unnamed/part_002): handleSubmit, its   *)
(* for-await loop over chatStream, and stopGeneration.                      *)

\* The most messages submitted, and the most chunks one stream delivers.
MaxSubmits == 2
MaxChunks == 2

\* A message: its role and its content, the content as the pieces it was
\* put together from: <<n, 0>> is the text of the n-th submitted message,
\* <<n, k>> the k-th chunk of the n-th stream, <<n, -1>> its error text.
Message(role, content) == [role |-> role, content |-> content]

\* Line 231: `abortControllerRef.current?.signal.aborted`, undefined (falsy)
\* when the ref holds null.
SignalAborted ==
    abortControllerRef # 0 /\ submits[abortControllerRef].aborted

\* Lines 187-209: handleSubmit up to its first await. It returns at once
\* while isLoading; otherwise it shows the user's message and an empty
\* assistant message and puts a new AbortController into the ref. chatStream
\* (api.ts lines 164-172) is not given the controller's signal.
HandleSubmit ==
    /\ ~isLoading
    /\ Len(submits) < MaxSubmits
    /\ LET n == Len(submits) + 1
           newMessages == Append(messages, Message("user", <<<<n, 0>>>>))
       IN  /\ messages' = Append(newMessages, Message("assistant", <<>>))
           /\ submits' = Append(submits,
                                [newMessages |-> newMessages, content |-> <<>>,
                                 aborted |-> FALSE, pc |-> "streaming",
                                 sessionId |-> currentSessionId])
           /\ abortControllerRef' = n
    /\ isLoading' = TRUE
    /\ UNCHANGED <<chatHistory, currentSessionId>>

\* Lines 179-185: stopGeneration aborts the controller in the ref, clears the
\* ref and ends the loading state.
StopGeneration ==
    /\ abortControllerRef # 0
    /\ submits' = [submits EXCEPT ![abortControllerRef].aborted = TRUE]
    /\ abortControllerRef' = 0
    /\ isLoading' = FALSE
    /\ UNCHANGED <<messages, chatHistory, currentSessionId>>

\* Lines 253-276, saveCurrentSession(msgs) as the i-th handleSubmit calls it:
\* `currentSessionId` is the one its closure captured, a new session gets a
\* fresh id (here i), and the session goes to the front of the history in
\* place of an older one with its id.
SaveCurrentSession(i, msgs) ==
    LET id == IF submits[i].sessionId # 0 THEN submits[i].sessionId ELSE i
        older(s) == s.id # id
    IN  /\ chatHistory' = <<[id |-> id, messages |-> msgs]>> \o SelectSeq(chatHistory, older)
        /\ currentSessionId' = id

\* Lines 236-250: the loop is over; the session is saved, and `finally`
\* ends the loading state and clears the ref.
Finish(i) ==
    /\ SaveCurrentSession(i, Append(submits[i].newMessages,
                                    Message("assistant", submits[i].content)))
    /\ submits' = [submits EXCEPT ![i].pc = "finished"]
    /\ isLoading' = FALSE
    /\ abortControllerRef' = 0
    /\ messages' = messages

\* Lines 230-234: the i-th stream yields a chunk. The loop breaks if the
\* controller in the ref is aborted; otherwise the chunk is added to the
\* assistant message and the list is set to newMessages plus that message.
StreamChunk(i) ==
    /\ submits[i].pc = "streaming"
    /\ Len(submits[i].content) < MaxChunks
    /\ IF SignalAborted THEN Finish(i)
       ELSE LET content == Append(submits[i].content, <<i, Len(submits[i].content) + 1>>)
            IN  /\ submits' = [submits EXCEPT ![i].content = content]
                /\ messages' = Append(submits[i].newMessages, Message("assistant", content))
                /\ UNCHANGED <<isLoading, abortControllerRef, chatHistory, currentSessionId>>

\* The i-th stream ends (api.ts lines 183-185 and 195).
StreamEnd(i) ==
    /\ submits[i].pc = "streaming"
    /\ Finish(i)

\* Lines 238-250: chatStream throws (api.ts lines 174-178, or a failed
\* read); the error is never an AbortError, since no signal was passed. The
\* assistant message becomes the error text, and `finally` runs.
StreamThrows(i) ==
    /\ submits[i].pc = "streaming"
    /\ submits' = [submits EXCEPT ![i].pc = "failed", ![i].content = <<<<i, -1>>>>]
    /\ messages' = Append(submits[i].newMessages, Message("assistant", <<<<i, -1>>>>))
    /\ isLoading' = FALSE
    /\ abortControllerRef' = 0
    /\ UNCHANGED <<chatHistory, currentSessionId>>

nonUiVars == <<retryVars, streamVars, handlerVars, failVars,
               routeVars, rateVars, cacheVars, sdkVars>>

UiNext ==
    \/ HandleSubmit /\ UNCHANGED nonUiVars
    \/ StopGeneration /\ UNCHANGED nonUiVars
    \/ \E i \in 1 .. Len(submits) : StreamChunk(i) /\ UNCHANGED nonUiVars
    \/ \E i \in 1 .. Len(submits) : StreamEnd(i) /\ UNCHANGED nonUiVars
    \/ \E i \in 1 .. Len(submits) : StreamThrows(i) /\ UNCHANGED nonUiVars

UiSpecInit ==
    RetryIdle /\ StreamIdle /\ HandlerIdle /\ FailoverIdle
    /\ RouteIdle /\ RateIdle /\ CacheIdle /\ SdkIdle /\ UiIdle

UiSpec == UiSpecInit /\ [][UiNext]_vars

\* C39: once stopGeneration has stopped a streaming reply, nothing that
\* stream does afterwards (a chunk, its end, its failure) changes the
\* message list, so no chunk of it is appended, and a message submitted
\* afterwards is neither mixed with its chunks nor overwritten by its updates.
C39_StoppedStreamIsSilent ==
    [][\A i \in 1 .. Len(submits) :
          (submits[i].aborted /\ submits'[i] # submits[i]) => messages' = messages]_vars

\* The same as a property of the states: the list on the page always
\* starts with the messages of the latest submit.
C39_LatestSubmitShown ==
    submits # <<>> =>
        LET latest == submits[Len(submits)].newMessages IN
        /\ Len(messages) >= Len(latest)
        /\ SubSeq(messages, 1, Len(latest)) = latest

\* Why the check of line 231 does not help: stopGeneration clears the ref in
\* the step in which it aborts the controller, so the ref never holds an
\* aborted controller and the loop never breaks.
C39_RefNeverAborted == ~SignalAborted

====
